---- MODULE Spec2Model ----
(***************************************************************************)
(* OBJExporter (sweethome3d/www/lib/objExporter.js): one exporter instance *)
(* walking a home (walls, then rooms, then furniture) and accumulating     *)
(* vertices, normals, texture coordinates, faces, materials and textures,  *)
(* then packaging and downloading the archive.                             *)
(*                                                                         *)
(* Numbers are integers: coordinates are centimetres, walls are            *)
(* axis-aligned and angles are quarter turns, so that the square root,     *)
(* the divisions and the sine/cosine of the source are exact.  A JavaScript*)
(* null index is None (the empty tuple) and an index n is Some(n); a null  *)
(* name is the string NullName; a null colour is NoColor.                  *)
(***************************************************************************)
EXTENDS Integers, Sequences, FiniteSets, TLC

\* ------------------------------------------------------------------ bounds
\* A home holds at most MaxItems elements over its three lists.
MaxItems == 2
\* A room polygon holds at most MaxPoints points.
MaxPoints == 5

\* ------------------------------------------------------------ JS encodings
None == <<>>
Some(n) == <<n>>
NullName == "<null>"
NoColor == -1
\* IEEE NaN, kept apart from every finite number of the model.
NaN == 1000000
isNaN(x) == x = NaN
Abs(x) == IF x < 0 THEN -x ELSE x
FAdd(a, b) == IF isNaN(a) \/ isNaN(b) THEN NaN ELSE a + b
FSub(a, b) == IF isNaN(a) \/ isNaN(b) THEN NaN ELSE a - b
FMul(a, b) == IF isNaN(a) \/ isNaN(b) THEN NaN ELSE a * b
\* Math.cos / Math.sin of q quarter turns.
Cos(q) == <<1, 0, -1, 0>>[(q % 4) + 1]
\* A sine that is 0 whatever the angle: the yaw is ignored.
Sin_ignored(q) == 0
Sin(q) == <<0, 1, 0, -1>>[(q % 4) + 1]
Range(s) == {s[k] : k \in 1..Len(s)}

\* ------------------------------------------------------------------- state
VARIABLES
    vertices,        \* this.vertices
    normals,         \* this.normals
    texCoords,       \* this.texCoords
    faces,           \* this.faces
    materials,       \* this.materials: name -> record
    textures,        \* this.textures: file name -> binary data
    currentMaterial, \* this.currentMaterial
    vertexIndex,     \* this.vertexIndex
    normalIndex,     \* this.normalIndex
    texCoordIndex,   \* this.texCoordIndex
    pc,              \* position of the exportToOBJ call
    home,            \* the home argument: the lengths of its three lists
    counts,          \* exportHome's wallCount, roomCount, furnitureCount
    cur,             \* the element being exported and the locals of its handler
    pending,         \* the request the handler awaits
    outcome,         \* how the call ended: its result or the error thrown
    downloads,       \* the archives handed to downloadBlob by the call
    before,          \* the pools as they were when the current element started
    discarded,       \* the last step was a reset() that emptied used pools
    serverExport,    \* the exportToServerAndDownload call that made the exporter
    steps,           \* the steps the exportToOBJ call has taken
    mappingFile,     \* saveEntityMapping.php: data/ha_entity_mappings.json
    request,         \* saveEntityMapping.php: the requests being handled
    saved            \* the ids whose last answered save, delete or clear was a save

vars == <<vertices, normals, texCoords, faces, materials, textures,
          currentMaterial, vertexIndex, normalIndex, texCoordIndex,
          pc, home, counts, cur, pending, outcome, downloads, before,
          discarded, serverExport, steps, mappingFile, request, saved>>

\* The exporter's fields as one record, so that the methods are operators.
This ==
    [vertices |-> vertices, normals |-> normals, texCoords |-> texCoords,
     faces |-> faces, materials |-> materials, textures |-> textures,
     currentMaterial |-> currentMaterial, vertexIndex |-> vertexIndex,
     normalIndex |-> normalIndex, texCoordIndex |-> texCoordIndex]

Store(t) ==
    /\ vertices' = t.vertices
    /\ normals' = t.normals
    /\ texCoords' = t.texCoords
    /\ faces' = t.faces
    /\ materials' = t.materials
    /\ textures' = t.textures
    /\ currentMaterial' = t.currentMaterial
    /\ vertexIndex' = t.vertexIndex
    /\ normalIndex' = t.normalIndex
    /\ texCoordIndex' = t.texCoordIndex

\* constructor() and reset(): empty pools, indices at 1.
reset ==
    [vertices |-> <<>>, normals |-> <<>>, texCoords |-> <<>>, faces |-> <<>>,
     materials |-> <<>>, textures |-> <<>>, currentMaterial |-> NullName,
     vertexIndex |-> 1, normalIndex |-> 1, texCoordIndex |-> 1]

\* --------------------------------------------------------------- Map helpers
has(map, key) == key \in DOMAIN map
set(map, key, value) ==
    [k \in (DOMAIN map) \cup {key} |-> IF k = key THEN value ELSE map[k]]

\* ------------------------------------------------------ geometry accumulator
\* addVertex: always appends; the index returned is the old vertexIndex.
\* An addVertex that takes the plan's y for the height: the second and third
\* coordinate change places.
addVertex_planOrder(t, v) ==
    [t EXCEPT !.vertices = Append(@, <<v[1], v[3], v[2]>>), !.vertexIndex = @ + 1]

addVertex(t, v) ==
    [t EXCEPT !.vertices = Append(@, v), !.vertexIndex = @ + 1]

\* addNormal's two rejections: a NaN component, or all components below 1e-6
\* in magnitude (for integer components: all zero).
rejectsNormal(n) ==
    \/ isNaN(n[1]) \/ isNaN(n[2]) \/ isNaN(n[3])
    \/ (Abs(n[1]) < 1 /\ Abs(n[2]) < 1 /\ Abs(n[3]) < 1)

addNormal(t, n) ==
    IF rejectsNormal(n) THEN t
    ELSE [t EXCEPT !.normals = Append(@, n), !.normalIndex = @ + 1]

\* The value addNormal returns: null, or the old normalIndex.
addNormalIndex(t, n) ==
    IF rejectsNormal(n) THEN None ELSE Some(t.normalIndex)

\* An addTexCoord that returns the index without advancing it.
addTexCoord_noIncrement(t, u, v) == [t EXCEPT !.texCoords = Append(@, <<u, v>>)]

addTexCoord(t, u, v) ==
    [t EXCEPT !.texCoords = Append(@, <<u, v>>), !.texCoordIndex = @ + 1]

addTriangle(t, v1, v2, v3, normal) ==
    LET i1 == t.vertexIndex
        t1 == addVertex(t, v1)
        i2 == t1.vertexIndex
        t2 == addVertex(t1, v2)
        i3 == t2.vertexIndex
        t3 == addVertex(t2, v3)
        ni == addNormalIndex(t3, normal)
        t4 == addNormal(t3, normal)
    IN  [t4 EXCEPT !.faces = Append(@,
            [vertices |-> <<i1, i2, i3>>,
             normals |-> <<ni, ni, ni>>,
             texCoords |-> <<None, None, None>>,
             material |-> t4.currentMaterial])]

\* A quad of which only the first triangle is emitted.
addQuad_half(t, v1, v2, v3, v4, normal) == addTriangle(t, v1, v2, v3, normal)

addQuad(t, v1, v2, v3, v4, normal) ==
    addTriangle(addTriangle(t, v1, v2, v3, normal), v1, v3, v4, normal)

\* generateTriangleUVs for one vertex: the (x,z) plane, or (x,y) when the
\* triangle's y varies by more than 0.1; the texture transform of the model
\* has scale 1 and angle 0; the result is wrapped into [0,1) with % 1.0,
\* which for integer coordinates and offsets is 0.
generateTriangleUVs(tri, transform) ==
    LET yVariance == Abs(tri[1][2] - tri[2][2]) + Abs(tri[2][2] - tri[3][2])
        uv(v) == <<(v[1] + transform.xOffset) % 1,
                   ((IF yVariance > 0 THEN v[2] ELSE v[3]) + transform.yOffset) % 1>>
    IN  <<uv(tri[1]), uv(tri[2]), uv(tri[3])>>

addTriangleWithTexture(t, v1, v2, v3, normal, transform) ==
    LET i1 == t.vertexIndex
        t1 == addVertex(t, v1)
        i2 == t1.vertexIndex
        t2 == addVertex(t1, v2)
        i3 == t2.vertexIndex
        t3 == addVertex(t2, v3)
        ni == addNormalIndex(t3, normal)
        t4 == addNormal(t3, normal)
        uvs == generateTriangleUVs(<<v1, v2, v3>>, transform)
        ti1 == t4.texCoordIndex
        t5 == addTexCoord(t4, uvs[1][1], uvs[1][2])
        ti2 == t5.texCoordIndex
        t6 == addTexCoord(t5, uvs[2][1], uvs[2][2])
        ti3 == t6.texCoordIndex
        t7 == addTexCoord(t6, uvs[3][1], uvs[3][2])
    IN  [t7 EXCEPT !.faces = Append(@,
            [vertices |-> <<i1, i2, i3>>,
             normals |-> <<ni, ni, ni>>,
             texCoords |-> <<Some(ti1), Some(ti2), Some(ti3)>>,
             material |-> t7.currentMaterial])]

addQuadWithTexture(t, v1, v2, v3, v4, normal, transform) ==
    addTriangleWithTexture(
        addTriangleWithTexture(t, v1, v2, v3, normal, transform),
        v1, v3, v4, normal, transform)

\* ----------------------------------------------------------------- materials
\* Colours are thousandths: 0.8 is 800.  A colour channel c of 0..255 is
\* c / 255.0.
Channel(c) == (c * 1000) \div 255
Red(color) == (color \div 65536) % 256
Green(color) == (color \div 256) % 256
Blue(color) == color % 256
NoTransform == [xOffset |-> 0, yOffset |-> 0]

Material(name, diffuse, specular, shininess, texture, transform) ==
    [name |-> name, diffuse |-> diffuse, specular |-> specular,
     shininess |-> shininess, transparency |-> 1000,
     texture |-> texture, textureTransform |-> transform]

\* A setMaterial that makes the name current without creating its record.
setMaterial_noRecord(t, materialName) == [t EXCEPT !.currentMaterial = materialName]

\* setMaterial: creates the record of an unknown name (the colours of the
\* three default_ names, else neutral gray), then makes it current.
setMaterial(t, materialName) ==
    LET rec ==
          IF materialName = "default_wall"
          THEN Material(materialName, <<950, 930, 880>>, <<100, 100, 100>>, 10,
                        NullName, NoTransform)
          ELSE IF materialName = "default_floor"
          THEN Material(materialName, <<850, 800, 700>>, <<200, 200, 200>>, 20,
                        NullName, NoTransform)
          ELSE IF materialName = "default_ceiling"
          THEN Material(materialName, <<980, 980, 980>>, <<50, 50, 50>>, 5,
                        NullName, NoTransform)
          ELSE Material(materialName, <<800, 800, 800>>, <<300, 300, 300>>, 30,
                        NullName, NoTransform)
        mats == IF has(t.materials, materialName) THEN t.materials
                ELSE set(t.materials, materialName, rec)
    IN  [t EXCEPT !.materials = mats, !.currentMaterial = materialName]

\* A flat-colour name that leaves out the surface kind: R_G_B alone.
colorMaterialName_anySurface(prefix, color) ==
    "color_" \o ToString(Red(color)) \o "_" \o ToString(Green(color))
             \o "_" \o ToString(Blue(color))

\* The flat-colour material of a surface: `prefix`_R_G_B, created once.
colorMaterialName(prefix, color) ==
    prefix \o "_" \o ToString(Red(color)) \o "_" \o ToString(Green(color))
           \o "_" \o ToString(Blue(color))

colorMaterial(t, prefix, color, specular, shininess) ==
    LET name == colorMaterialName(prefix, color)
        rec == Material(name,
                        <<Channel(Red(color)), Channel(Green(color)), Channel(Blue(color))>>,
                        <<specular, specular, specular>>, shininess,
                        NullName, NoTransform)
    IN  IF has(t.materials, name) THEN t
        ELSE [t EXCEPT !.materials = set(@, name, rec)]

\* `if (color)`: null and 0 are both falsy.
truthy(color) == color # NoColor /\ color # 0

\* ------------------------------------------------------------------ textures
\* The extension getTextureExtension finds in the URLs of the model.
getTextureExtension(url) == IF url = "oak.png" THEN ".png" ELSE ".jpg"

\* The bytes behind a texture URL: oak.png and tiles are the same image.
Bytes(url) == IF url = "tex/grain.jpg" THEN 2 ELSE 1

\* A comparison that finds no duplicate: every texture is stored anew.
findDuplicateTexture_none(t, data) == NullName

\* findDuplicateTexture: the stored name whose bytes equal the new bytes.
findDuplicateTexture(t, data) ==
    LET same == {n \in DOMAIN t.textures : t.textures[n] = data}
    IN  IF same = {} THEN NullName ELSE CHOOSE n \in same : TRUE

RECURSIVE uniqueFrom(_, _, _, _)
uniqueFrom(t, baseName, extension, counter) ==
    LET name == baseName \o "_" \o ToString(counter) \o extension
    IN  IF has(t.textures, name)
        THEN uniqueFrom(t, baseName, extension, counter + 1)
        ELSE name

generateUniqueTextureName(t, baseName, extension) ==
    IF has(t.textures, baseName \o extension)
    THEN uniqueFrom(t, baseName, extension, 1)
    ELSE baseName \o extension

\* The name addTexture returns.
addTextureName(t, baseName, url, data) ==
    IF findDuplicateTexture(t, data) # NullName
    THEN findDuplicateTexture(t, data)
    ELSE generateUniqueTextureName(t, baseName, getTextureExtension(url))

addTexture(t, baseName, url, data) ==
    IF findDuplicateTexture(t, data) # NullName THEN t
    ELSE [t EXCEPT !.textures =
            set(@, generateUniqueTextureName(t, baseName, getTextureExtension(url)), data)]

\* A surface's textured material: the texture is stored, then the record of
\* `materialName` is (over)written with the texture and its transform.
texturedMaterial(t, baseName, materialName, tex, data, specular, shininess) ==
    LET textureName == addTextureName(t, baseName, tex.url, data)
        t1 == addTexture(t, baseName, tex.url, data)
    IN  [t1 EXCEPT !.materials = set(@, materialName,
            Material(materialName, <<800, 800, 800>>,
                     <<specular, specular, specular>>, shininess, textureName,
                     [xOffset |-> tex.xOffset, yOffset |-> tex.yOffset]))]

\* --------------------------------------------------------------------- walls
NoTexture == [url |-> NullName, xOffset |-> 0, yOffset |-> 0]
Texture(url) == [url |-> url, xOffset |-> 0, yOffset |-> 0]
\* getImage() and getURL() both give a value.
hasURL(tex) == tex.url # NullName

\* The colour 0xFF0000.
Red16 == 255 * 65536

NullWall ==
    [isNull |-> TRUE, xStart |-> 0, yStart |-> 0, xEnd |-> 0, yEnd |-> 0,
     height |-> 0, thickness |-> 0,
     leftSideTexture |-> NoTexture, rightSideTexture |-> NoTexture,
     leftSideColor |-> NoColor, rightSideColor |-> NoColor]

Wall(xEnd, yEnd, leftTexture, leftColor, rightTexture, rightColor) ==
    [isNull |-> FALSE, xStart |-> 0, yStart |-> 0, xEnd |-> xEnd, yEnd |-> yEnd,
     height |-> 250, thickness |-> 10,
     leftSideTexture |-> leftTexture, rightSideTexture |-> rightTexture,
     leftSideColor |-> leftColor, rightSideColor |-> rightColor]

\* The walls a home may hold: null, of no length, or along an axis, with and
\* without a colour (black is 0) and a texture on either side.
Walls ==
    { NullWall,
      Wall(0, 0, Texture("oak.png"), Red16, NoTexture, NoColor),
      Wall(100, 0, NoTexture, NoColor, NoTexture, NoColor),
      Wall(0, 100, NoTexture, Red16, NoTexture, NoColor),
      Wall(100, 0, NoTexture, 0, NoTexture, Red16),
      Wall(100, 0, Texture("oak.png"), Red16, NoTexture, NoColor),
      Wall(0, 100, Texture("oak.png"), NoColor, Texture("tiles"), NoColor),
      Wall(100, 0, NoTexture, NoColor, Texture("tex/grain.jpg"), Red16) }

wallName(i, side) == "wall_" \o ToString(i) \o "_" \o side

\* getWallMaterial below the texture branch: the flat colour or the default.
getWallMaterialColorName(wall) ==
    IF truthy(wall.leftSideColor)
    THEN colorMaterialName("wall", wall.leftSideColor)
    ELSE "default_wall"

getWallMaterialColor(t, wall) ==
    IF truthy(wall.leftSideColor)
    THEN colorMaterial(t, "wall", wall.leftSideColor, 300, 20)
    ELSE t

\* The quads of exportWall in turn: each under its material (set again only
\* where the code sets it), with texture coordinates when the material has
\* a texture.
RECURSIVE addWallQuads(_, _, _)
addWallQuads(t, quads, k) ==
    IF k > Len(quads) THEN t
    ELSE LET q == quads[k]
             t1 == IF q.material = NullName THEN t ELSE setMaterial(t, q.material)
         IN  addWallQuads(
                 IF q.textured
                 THEN addQuadWithTexture(t1, q.v[1], q.v[2], q.v[3], q.v[4], q.normal,
                                         q.transform)
                 ELSE addQuad(t1, q.v[1], q.v[2], q.v[3], q.v[4], q.normal),
                 quads, k + 1)

\* The geometry of exportWall once both material names are known.
wallGeometry(t, wall, leftMaterialName, rightMaterialName) ==
    LET dx == wall.xEnd - wall.xStart
        dy == wall.yEnd - wall.yStart
        length == Abs(dx) + Abs(dy)
        nx == (-dy) \div length
        ny == dx \div length
        ox == (nx * wall.thickness) \div 2
        oy == (ny * wall.thickness) \div 2
        v1 == <<wall.xStart - ox, 0, wall.yStart - oy>>
        v2 == <<wall.xEnd - ox, 0, wall.yEnd - oy>>
        v3 == <<wall.xEnd - ox, wall.height, wall.yEnd - oy>>
        v4 == <<wall.xStart - ox, wall.height, wall.yStart - oy>>
        v5 == <<wall.xStart + ox, 0, wall.yStart + oy>>
        v6 == <<wall.xEnd + ox, 0, wall.yEnd + oy>>
        v7 == <<wall.xEnd + ox, wall.height, wall.yEnd + oy>>
        v8 == <<wall.xStart + ox, wall.height, wall.yStart + oy>>
        hasLeftTexture == /\ has(t.materials, leftMaterialName)
                          /\ t.materials[leftMaterialName].texture # NullName
        hasRightTexture == /\ has(t.materials, rightMaterialName)
                           /\ t.materials[rightMaterialName].texture # NullName
        leftTransform == IF hasLeftTexture
                         THEN t.materials[leftMaterialName].textureTransform
                         ELSE NoTransform
        rightTransform == IF hasRightTexture
                          THEN t.materials[rightMaterialName].textureTransform
                          ELSE NoTransform
        left(material, v, normal) ==
            [material |-> material, textured |-> hasLeftTexture,
             transform |-> leftTransform, v |-> v, normal |-> normal]
        right(material, v, normal) ==
            [material |-> material, textured |-> hasRightTexture,
             transform |-> rightTransform, v |-> v, normal |-> normal]
    IN  addWallQuads(t,
            << left(leftMaterialName, <<v1, v2, v3, v4>>, <<0, 0, -1>>),
               right(rightMaterialName, <<v6, v5, v8, v7>>, <<0, 0, 1>>),
               left(leftMaterialName, <<v4, v3, v7, v8>>, <<0, 1, 0>>),
               left(NullName, <<v5, v1, v4, v8>>, <<-nx, 0, -ny>>),
               left(NullName, <<v2, v6, v7, v3>>, <<nx, 0, ny>>) >>, 1)

\* A handler's position: its exporter state, the fetch it awaits ("done" when
\* it has returned) and its local material names.
At(t, stage, left, right) ==
    [t |-> t, stage |-> stage, locals |-> [left |-> left, right |-> right]]

\* A handler that throws: the error leaves exportHome and exportToOBJ.
Throws(t, message) ==
    [t |-> t, stage |-> "thrown", locals |-> [message |-> message]]

wallFinish(t, wall, left, right) ==
    At(wallGeometry(t, wall, left, right), "done", left, right)

\* getWallRightSideMaterial, step 3: the left side as fallback, which
\* resolves the left material again (and fetches its texture again).
wallLeftFallback(t, wall, left) ==
    IF hasURL(wall.leftSideTexture)
    THEN At(t, "left2", left, NullName)
    ELSE wallFinish(getWallMaterialColor(t, wall), wall, left,
                    getWallMaterialColorName(wall))

\* getWallRightSideMaterial, step 2: the right side's flat colour.
wallRightColor(t, wall, left) ==
    IF truthy(wall.rightSideColor)
    THEN wallFinish(colorMaterial(t, "wall_right", wall.rightSideColor, 300, 20),
                    wall, left, colorMaterialName("wall_right", wall.rightSideColor))
    ELSE wallLeftFallback(t, wall, left)

\* getWallRightSideMaterial, step 1: the right side's texture.
getWallRightSideMaterial(t, wall, left) ==
    IF hasURL(wall.rightSideTexture)
    THEN At(t, "right", left, NullName)
    ELSE wallRightColor(t, wall, left)

\* getWallMaterial for the wall's left side.
getWallMaterial(t, wall) ==
    IF hasURL(wall.leftSideTexture)
    THEN At(t, "left", NullName, NullName)
    ELSE getWallRightSideMaterial(getWallMaterialColor(t, wall), wall,
                                  getWallMaterialColorName(wall))

\* exportWall up to its first await.
exportWall(t, wall) ==
    IF wall.isNull THEN At(t, "done", NullName, NullName)
    ELSE IF wall.xStart = wall.xEnd /\ wall.yStart = wall.yEnd
    THEN At(t, "done", NullName, NullName)
    ELSE getWallMaterial(t, wall)

\* exportWall from the await of `stage` on, the fetch having given the
\* image's bytes (ok) or thrown.
resumeWall(t, wall, i, stage, left, ok) ==
    LET leftTextured == wallName(i, "left_textured")
        rightTextured == wallName(i, "right_textured")
        withLeft == texturedMaterial(t, wallName(i, "left"), leftTextured,
                                     wall.leftSideTexture,
                                     Bytes(wall.leftSideTexture.url), 300, 20)
        withRight == texturedMaterial(t, wallName(i, "right"), rightTextured,
                                      wall.rightSideTexture,
                                      Bytes(wall.rightSideTexture.url), 300, 20)
    IN  IF stage = "left"
        THEN IF ok THEN getWallRightSideMaterial(withLeft, wall, leftTextured)
             ELSE getWallRightSideMaterial(getWallMaterialColor(t, wall), wall,
                                           getWallMaterialColorName(wall))
        ELSE IF stage = "right"
        THEN IF ok THEN wallFinish(withRight, wall, left, rightTextured)
             ELSE wallRightColor(t, wall, left)
        ELSE IF ok THEN wallFinish(withLeft, wall, left, leftTextured)
             ELSE wallFinish(getWallMaterialColor(t, wall), wall, left,
                             getWallMaterialColorName(wall))

\* --------------------------------------------------------------------- rooms
\* The k-th point of the convex polygon the rooms of the model are cut from.
PolygonPoint(k) == <<100 * k, 10 * k * k>>
Polygon(n) == [k \in 1..n |-> PolygonPoint(k - 1)]

NullRoom ==
    [isNull |-> TRUE, nullPoints |-> FALSE, points |-> <<>>,
     floorTexture |-> NoTexture, ceilingTexture |-> NoTexture,
     floorColor |-> NoColor, ceilingColor |-> NoColor]

Room(points, floorTexture, floorColor, ceilingTexture, ceilingColor) ==
    [isNull |-> FALSE, nullPoints |-> FALSE, points |-> points,
     floorTexture |-> floorTexture, ceilingTexture |-> ceilingTexture,
     floorColor |-> floorColor, ceilingColor |-> ceilingColor]

\* A room whose getPoints() returns null.
PointlessRoom ==
    [Room(<<>>, NoTexture, NoColor, NoTexture, NoColor) EXCEPT !.nullPoints = TRUE]

\* The rooms a home may hold: null, without a point list, or a polygon of
\* 2..MaxPoints points that is plain, coloured or textured.
Rooms ==
    {NullRoom, PointlessRoom} \cup
    UNION {{ Room(Polygon(n), NoTexture, NoColor, NoTexture, NoColor),
             Room(Polygon(n), NoTexture, Red16, NoTexture, 255),
             Room(Polygon(n), Texture("tiles"), Red16, Texture("tex/grain.jpg"), NoColor) } :
           n \in 2..MaxPoints}

roomName(i, side) == "room_" \o ToString(i) \o "_" \o side

\* A triangulation that never reverses the winding.
triangulatePolygon_unflipped(points, elevation, flipNormal) ==
    LET p(k) == <<points[k + 1][1], elevation, points[k + 1][2]>>
    IN  [i \in 1..(Len(points) - 2) |-> <<p(0), p(i), p(i + 1)>>]

\* triangulatePolygon: the triangle as given (reversed when flipped), the
\* quadrilateral split along the diagonal 0-2, else a fan from point 0.
triangulatePolygon(points, elevation, flipNormal) ==
    LET p(k) == <<points[k + 1][1], elevation, points[k + 1][2]>>
    IN  IF Len(points) = 3
        THEN IF flipNormal THEN << <<p(2), p(1), p(0)>> >>
             ELSE << <<p(0), p(1), p(2)>> >>
        ELSE IF Len(points) = 4
        THEN IF flipNormal
             THEN << <<p(0), p(2), p(1)>>, <<p(0), p(3), p(2)>> >>
             ELSE << <<p(0), p(1), p(2)>>, <<p(0), p(2), p(3)>> >>
        ELSE [i \in 1..(Len(points) - 2) |->
                IF flipNormal THEN <<p(0), p(i + 1), p(i)>>
                ELSE <<p(0), p(i), p(i + 1)>>]

\* The loop of exportRoom over the triangles of one surface.
RECURSIVE addTriangles(_, _, _, _, _, _)
addTriangles(t, triangles, k, normal, textured, transform) ==
    IF k > Len(triangles) THEN t
    ELSE LET tri == triangles[k]
             t1 == IF textured
                   THEN addTriangleWithTexture(t, tri[1], tri[2], tri[3], normal, transform)
                   ELSE addTriangle(t, tri[1], tri[2], tri[3], normal)
         IN  addTriangles(t1, triangles, k + 1, normal, textured, transform)

\* One surface of exportRoom: setMaterial, then the triangles.
roomSurface(t, points, elevation, flipNormal, normal, materialName) ==
    LET t1 == setMaterial(t, materialName)
        mat == t1.materials[materialName]
        textured == mat.texture # NullName
    IN  addTriangles(t1, triangulatePolygon(points, elevation, flipNormal), 1,
                     normal, textured, mat.textureTransform)

getRoomFloorMaterialName(room) ==
    IF truthy(room.floorColor) THEN colorMaterialName("floor", room.floorColor)
    ELSE "default_floor"

getRoomFloorMaterial(t, room) ==
    IF truthy(room.floorColor) THEN colorMaterial(t, "floor", room.floorColor, 100, 10)
    ELSE t

getRoomCeilingMaterialName(room) ==
    IF truthy(room.ceilingColor) THEN colorMaterialName("ceiling", room.ceilingColor)
    ELSE "default_ceiling"

getRoomCeilingMaterial(t, room) ==
    IF truthy(room.ceilingColor)
    THEN colorMaterial(t, "ceiling", room.ceilingColor, 100, 10)
    ELSE t

\* exportRoom from the ceiling material's name on.
roomCeiling(t, room, floor, ceiling) ==
    At(roomSurface(t, room.points, 250, FALSE, <<0, 1, 0>>, ceiling),
       "done", floor, ceiling)

\* exportRoom from the floor material's name on, up to the ceiling's fetch.
roomFloor(t, room, floor) ==
    LET t1 == roomSurface(t, room.points, 0, TRUE, <<0, -1, 0>>, floor)
    IN  IF hasURL(room.ceilingTexture)
        THEN At(t1, "ceiling", floor, NullName)
        ELSE roomCeiling(getRoomCeilingMaterial(t1, room), room, floor,
                         getRoomCeilingMaterialName(room))

\* exportRoom up to its first await.
exportRoom(t, room) ==
    IF room.isNull THEN At(t, "done", NullName, NullName)
    ELSE IF room.nullPoints
    THEN Throws(t, "Cannot read properties of null (reading 'length')")
    ELSE IF Len(room.points) < 3 THEN At(t, "done", NullName, NullName)
    ELSE IF hasURL(room.floorTexture) THEN At(t, "floor", NullName, NullName)
    ELSE roomFloor(getRoomFloorMaterial(t, room), room, getRoomFloorMaterialName(room))

\* exportRoom from the await of `stage` on.
resumeRoom(t, room, i, stage, floor, ok) ==
    IF stage = "floor"
    THEN IF ok
         THEN roomFloor(texturedMaterial(t, roomName(i, "floor"),
                                         roomName(i, "floor_textured"),
                                         room.floorTexture,
                                         Bytes(room.floorTexture.url), 100, 10),
                        room, roomName(i, "floor_textured"))
         ELSE roomFloor(getRoomFloorMaterial(t, room), room,
                        getRoomFloorMaterialName(room))
    ELSE IF ok
         THEN roomCeiling(texturedMaterial(t, roomName(i, "ceiling"),
                                           roomName(i, "ceiling_textured"),
                                           room.ceilingTexture,
                                           Bytes(room.ceilingTexture.url), 100, 10),
                          room, floor, roomName(i, "ceiling_textured"))
         ELSE roomCeiling(getRoomCeilingMaterial(t, room), room, floor,
                          getRoomCeilingMaterialName(room))

\* ----------------------------------------------------------------- furniture
\* String functions of the source, on the names the model uses.
toLowerCase(s) ==
    IF s = "Wood" THEN "wood"
    ELSE IF s = "Wood-1" THEN "wood-1"
    ELSE IF s = "Wood1" THEN "wood1"
    ELSE IF s = "Steel" THEN "steel"
    ELSE s
\* replace(/[^a-zA-Z0-9_]/g, '')
sanitize(s) == IF s = "Wood-1" THEN "Wood1" ELSE s
\* name.split('.')[0]
stem(s) ==
    IF s = "oak.png" THEN "oak"
    ELSE IF s = "tex/grain.jpg" THEN "tex/grain"
    ELSE s
\* path.split(/[/\\]/).pop()
lastSegment(s) ==
    IF s = "tex/grain.jpg" THEN "grain.jpg"
    ELSE IF s = "maps/oak.png" THEN "oak.png"
    ELSE s

\* What parseMTLTextures keeps of one newmtl block.
MtlData(texture, diffuse, shininess) ==
    [texture |-> texture, diffuse |-> diffuse, specular |-> <<0, 0, 0>>,
     shininess |-> shininess]

\* this.defaultMaterials: parsed from DEFAULT_MTL_CONTENT when the page
\* defines it.
defaultMaterials == [n \in {"Steel"} |-> MtlData(NullName, <<500, 500, 500>>, 30)]

\* parseMTLTextures over the newmtl blocks of a library: a block's map_Kd is
\* kept when its last path segment, lower-cased, is a lower-cased key of
\* textureMap; a later block of the same name replaces the earlier one.
\* A parseMTLTextures that keeps the path the library gives for the image.
RECURSIVE parseMTLTextures_libraryPath(_, _, _, _)
parseMTLTextures_libraryPath(blocks, k, textureMap, acc) ==
    IF k > Len(blocks) THEN acc
    ELSE parseMTLTextures_libraryPath(
             blocks, k + 1, textureMap,
             set(acc, blocks[k].name,
                 MtlData(blocks[k].map_Kd, blocks[k].Kd, blocks[k].Ns)))

RECURSIVE parseMTLTextures(_, _, _, _)
parseMTLTextures(blocks, k, textureMap, acc) ==
    IF k > Len(blocks) THEN acc
    ELSE LET b == blocks[k]
             keys == {f \in DOMAIN textureMap :
                        b.map_Kd # NullName /\
                        toLowerCase(f) = toLowerCase(lastSegment(b.map_Kd))}
             texture == IF keys = {} THEN NullName
                        ELSE textureMap[CHOOSE f \in keys : TRUE]
         IN  parseMTLTextures(blocks, k + 1, textureMap,
                              set(acc, b.name, MtlData(texture, b.Kd, b.Ns)))

\* The usemtl lookup: the exact name, else a name equal ignoring case.
lookupMaterial(map, name) ==
    IF has(map, name) THEN {map[name]}
    ELSE {map[key] : key \in {x \in DOMAIN map : toLowerCase(x) = toLowerCase(name)}}

furnitureName(i) == "furniture_" \o ToString(i)
furnitureMaterialName(name) == "furniture_" \o name

\* The placement's colour override as a material record.
overrideMaterial(materialName, color) ==
    Material(materialName,
             <<Channel(Red(color)), Channel(Green(color)), Channel(Blue(color))>>,
             <<300, 300, 300>>, 30, NullName, NoTransform)

Min(S) == CHOOSE x \in S : \A y \in S : x <= y
Max(S) == CHOOSE x \in S : \A y \in S : x >= y

\* A face reference: positive counts from the model's first element,
\* otherwise it is added to the pool's next index.
\* A face reference read as positive whatever its sign.
absoluteIndex_positiveOnly(idx, offset, nextIndex) == idx + offset

absoluteIndex(idx, offset, nextIndex) ==
    IF idx > 0 THEN idx + offset ELSE nextIndex + idx

absoluteOptional(ref, offset, nextIndex) ==
    IF ref = None THEN None ELSE Some(absoluteIndex(ref[1], offset, nextIndex))

\* The corners of a face line resolved against the pools as they stand.
faceVerts(t, corners, c) ==
    [k \in 1..Len(corners) |->
        [v |-> absoluteIndex(corners[k].v, c.vertexOffset, t.vertexIndex),
         vt |-> absoluteOptional(corners[k].vt, c.texCoordOffset, t.texCoordIndex),
         vn |-> absoluteOptional(corners[k].vn, c.normalOffset, t.normalIndex)]]

faceOf(t, fv, a, b, d) ==
    [vertices |-> <<fv[a].v, fv[b].v, fv[d].v>>,
     normals |-> <<fv[a].vn, fv[b].vn, fv[d].vn>>,
     texCoords |-> <<fv[a].vt, fv[b].vt, fv[d].vt>>,
     material |-> t.currentMaterial]

\* The faces one face line adds: one for 3 corners, two for 4, a fan beyond.
facesOfLine(t, fv) ==
    IF Len(fv) = 3 THEN <<faceOf(t, fv, 1, 2, 3)>>
    ELSE IF Len(fv) = 4 THEN <<faceOf(t, fv, 1, 2, 3), faceOf(t, fv, 1, 3, 4)>>
    ELSE IF Len(fv) > 4 THEN [i \in 1..(Len(fv) - 2) |-> faceOf(t, fv, 1, i + 1, i + 2)]
    ELSE <<>>

\* The usemtl directive of integrateOBJContent.
useMaterial(t, source, c) ==
    LET inZip == lookupMaterial(c.materialTextureMap, source)
        found == IF inZip # {} THEN inZip ELSE lookupMaterial(defaultMaterials, source)
        mtlData == CHOOSE m \in found : TRUE
        specificMaterialName == c.materialName \o "_" \o sanitize(source)
        rec == Material(specificMaterialName, mtlData.diffuse, mtlData.specular,
                        mtlData.shininess, mtlData.texture, NoTransform)
    IN  IF found = {} THEN setMaterial(t, c.materialName)
        ELSE IF has(t.materials, specificMaterialName)
        THEN setMaterial(t, specificMaterialName)
        ELSE setMaterial([t EXCEPT !.materials = set(@, specificMaterialName, rec)],
                         specificMaterialName)

\* One line of the second pass of integrateOBJContent.
integrateLine(t, line, c) ==
    IF line.k = "usemtl" THEN useMaterial(t, line.name, c)
    ELSE IF line.k = "v"
    THEN LET vx == (line.x - c.centerX) * c.scaleX
             vy == (line.y - c.centerY) * c.scaleY
             vz == (line.z - c.centerZ) * c.scaleZ
             rotX == vx * c.cos - vz * c.sin
             rotZ == vx * c.sin + vz * c.cos
         IN  [t EXCEPT !.vertices = Append(@, <<c.x + rotX, c.elevation + vy, c.y + rotZ>>),
                       !.vertexIndex = @ + 1]
    ELSE IF line.k = "vn"
    THEN LET rotNx == FSub(FMul(line.x, c.cos), FMul(line.z, c.sin))
             rotNz == FAdd(FMul(line.x, c.sin), FMul(line.z, c.cos))
         IN  [t EXCEPT !.normals = Append(@, <<rotNx, line.y, rotNz>>),
                       !.normalIndex = @ + 1]
    ELSE IF line.k = "vt"
    THEN [t EXCEPT !.texCoords = Append(@, <<line.u, line.v>>),
                   !.texCoordIndex = @ + 1]
    ELSE [t EXCEPT !.faces = @ \o facesOfLine(t, faceVerts(t, line.corners, c))]

RECURSIVE integrateLines(_, _, _, _)
integrateLines(t, lines, k, c) ==
    IF k > Len(lines) THEN t
    ELSE integrateLines(integrateLine(t, lines[k], c), lines, k + 1, c)

\* integrateOBJContent: the model's bounds (first pass), the placement's base
\* material, then every line transformed into the pools (second pass).
integrateOBJContent(t, lines, piece, name, materialTextureMap) ==
    LET vs == {k \in 1..Len(lines) : lines[k].k = "v"}
        xs == {lines[k].x : k \in vs}
        ys == {lines[k].y : k \in vs}
        zs == {lines[k].z : k \in vs}
        modelWidth == IF vs = {} THEN 0 ELSE Max(xs) - Min(xs)
        modelHeight == IF vs = {} THEN 0 ELSE Max(ys) - Min(ys)
        modelDepth == IF vs = {} THEN 0 ELSE Max(zs) - Min(zs)
        materialName == furnitureMaterialName(name)
        c == [vertexOffset |-> t.vertexIndex - 1,
              normalOffset |-> t.normalIndex - 1,
              texCoordOffset |-> t.texCoordIndex - 1,
              centerX |-> IF vs = {} THEN 0 ELSE (Min(xs) + Max(xs)) \div 2,
              centerY |-> IF vs = {} THEN 0 ELSE Min(ys),
              centerZ |-> IF vs = {} THEN 0 ELSE (Min(zs) + Max(zs)) \div 2,
              scaleX |-> IF modelWidth > 0 THEN piece.width \div modelWidth ELSE 1,
              scaleY |-> IF modelHeight > 0 THEN piece.height \div modelHeight ELSE 1,
              scaleZ |-> IF modelDepth > 0 THEN piece.depth \div modelDepth ELSE 1,
              cos |-> Cos(piece.angle), sin |-> Sin(piece.angle),
              x |-> piece.x, y |-> piece.y, elevation |-> piece.elevation,
              materialName |-> materialName,
              materialTextureMap |-> materialTextureMap]
        t1 == IF piece.color # NoColor
              THEN [t EXCEPT !.materials =
                      set(@, materialName, overrideMaterial(materialName, piece.color))]
              ELSE t
    IN  integrateLines(setMaterial(t1, materialName), lines, 1, c)

\* exportFurnitureBoundingBox: the eight corners rotated by the yaw and moved
\* to the placement, then six quads.
exportFurnitureBoundingBox(t, piece, name) ==
    LET cos == Cos(piece.angle)
        sin == Sin(piece.angle)
        w == piece.width \div 2
        d == piece.depth \div 2
        h == piece.height
        world(v) == <<piece.x + (v[1] * cos - v[3] * sin),
                      piece.elevation + v[2],
                      piece.y + (v[1] * sin + v[3] * cos)>>
        verts == [k \in 1..8 |-> world(
                    << <<-w, 0, -d>>, <<w, 0, -d>>, <<w, 0, d>>, <<-w, 0, d>>,
                       <<-w, h, -d>>, <<w, h, -d>>, <<w, h, d>>, <<-w, h, d>> >>[k])]
        materialName == furnitureMaterialName(name)
        t0 == IF piece.color # NoColor
              THEN [t EXCEPT !.materials =
                      set(@, materialName, overrideMaterial(materialName, piece.color))]
              ELSE t
        t1 == addQuad(setMaterial(t0, materialName),
                      verts[1], verts[2], verts[3], verts[4], <<0, -1, 0>>)
        t2 == addQuad(t1, verts[5], verts[8], verts[7], verts[6], <<0, 1, 0>>)
        t3 == addQuad(t2, verts[1], verts[4], verts[8], verts[5], <<-cos, 0, -sin>>)
        t4 == addQuad(t3, verts[2], verts[6], verts[7], verts[3], <<cos, 0, sin>>)
        t5 == addQuad(t4, verts[4], verts[3], verts[7], verts[8], <<sin, 0, -cos>>)
    IN  addQuad(t5, verts[1], verts[5], verts[6], verts[2], <<-sin, 0, cos>>)

\* A furniture handler's position: how the piece was exported ("model",
\* "box", or "none" for a null piece), the error its catch block received
\* (if any) and the exporter as it was when the fallback started.
Placed(t, stage, via, error, atFallback) ==
    [t |-> t, stage |-> stage,
     locals |-> [via |-> via, error |-> error, atFallback |-> atFallback]]

\* The end of exportFurniture: the bounding box, after `error` was caught or
\* (NullName) for want of a model URL.
fallback(t, piece, name, error) ==
    Placed(exportFurnitureBoundingBox(t, piece, name), "done", "box", error, t)

\* The texture loop of zipReady: a file that cannot be read is skipped, a
\* file read is stored by addTexture and entered in textureMap.
RECURSIVE extractTextures(_, _, _, _, _)
extractTextures(t, name, files, k, textureMap) ==
    IF k > Len(files) THEN [t |-> t, textureMap |-> textureMap]
    ELSE LET f == files[k]
             texBaseName == "furniture_" \o name \o "_" \o stem(f.name)
         IN  IF f.readable
             THEN extractTextures(addTexture(t, texBaseName, f.name, f.data), name,
                                  files, k + 1,
                                  set(textureMap, f.name,
                                      addTextureName(t, texBaseName, f.name, f.data)))
             ELSE extractTextures(t, name, files, k + 1, textureMap)

\* The zipReady callback of exportModelFromURL, and the catch of
\* exportFurniture when it rejects.
zipReady(t, zip, piece, name) ==
    LET e == extractTextures(t, name, zip.textureFiles, 1, <<>>)
        materialTextureMap ==
            IF zip.hasMtl THEN parseMTLTextures(zip.mtl, 1, e.textureMap, <<>>)
            ELSE <<>>
    IN  IF ~zip.hasObj THEN fallback(t, piece, name, "No OBJ file found in model ZIP")
        ELSE IF zip.hasMtl /\ ~zip.mtlReadable
        THEN fallback(e.t, piece, name, "selectedMtlFile.asText")
        ELSE IF ~zip.objReadable THEN fallback(e.t, piece, name, "objFile.asText")
        ELSE Placed(integrateOBJContent(e.t, zip.obj, piece, name, materialTextureMap),
                    "done", "model", NullName, e.t)

\* exportFurniture without its catch block: the rejection leaves the handler.
zipError_uncaught(t, piece, name) ==
    [t |-> t, stage |-> "thrown",
     locals |-> [via |-> "none", error |-> "Failed to load ZIP", atFallback |-> t,
                 message |-> "Failed to load ZIP"]]

\* The zipError callback, and the catch of exportFurniture.
zipError(t, piece, name) == fallback(t, piece, name, "Failed to load ZIP")

\* exportFurniture up to the request of the model archive.
exportFurniture(t, piece, name) ==
    IF piece.isNull THEN Placed(t, "done", "none", NullName, t)
    ELSE IF piece.modelURL # NullName \/ piece.catalogId # NullName
    THEN Placed(t, "zip", "none", NullName, t)
    ELSE fallback(t, piece, name, NullName)

\* ------------------------------------------------------------ model archives
V(x, y, z) == [k |-> "v", x |-> x, y |-> y, z |-> z]
VN(x, y, z) == [k |-> "vn", x |-> x, y |-> y, z |-> z]
VT(u, v) == [k |-> "vt", u |-> u, v |-> v]
F(corners) == [k |-> "f", corners |-> corners]
UseMtl(name) == [k |-> "usemtl", name |-> name]
\* The face references v, v/vt, v//vn and v/vt/vn.
Ref(v) == [v |-> v, vt |-> None, vn |-> None]
RefT(v, vt) == [v |-> v, vt |-> Some(vt), vn |-> None]
RefN(v, vn) == [v |-> v, vt |-> None, vn |-> Some(vn)]
RefTN(v, vt, vn) == [v |-> v, vt |-> Some(vt), vn |-> Some(vn)]
Block(name, mapKd, kd) == [name |-> name, map_Kd |-> mapKd, Kd |-> kd, Ns |-> 30]
File(name, readable, data) == [name |-> name, readable |-> readable, data |-> data]

Archive(hasObj, objReadable, obj, hasMtl, mtlReadable, mtl, textureFiles) ==
    [hasObj |-> hasObj, objReadable |-> objReadable, obj |-> obj,
     hasMtl |-> hasMtl, mtlReadable |-> mtlReadable, mtl |-> mtl,
     textureFiles |-> textureFiles]

Triangle == <<V(0, 0, 0), V(2, 0, 0), V(0, 2, 2)>>
Square == <<V(0, 0, 0), V(2, 0, 0), V(2, 2, 2), V(0, 2, 2)>>
WoodLibrary == <<Block("Wood", "tex/grain.jpg", <<600, 400, 200>>)>>

\* The archives a model request may deliver.
Archives ==
    { \* a textured triangle with a normal and texture coordinates
      Archive(TRUE, TRUE,
              Triangle \o <<VN(0, 0, 1), VT(0, 0), UseMtl("wood"),
                            F(<<RefTN(1, 1, 1), RefTN(2, -1, -1), RefTN(3, 1, 1)>>)>>,
              TRUE, TRUE, WoodLibrary, <<File("tex/grain.jpg", TRUE, 1)>>),
      \* a textured triangle whose library names the image by a path
      Archive(TRUE, TRUE,
              Triangle \o <<VT(0, 0), UseMtl("Wood"),
                            F(<<RefT(1, 1), RefT(2, 1), RefT(3, 1)>>)>>,
              TRUE, TRUE, <<Block("Wood", "maps/oak.png", <<600, 400, 200>>)>>,
              <<File("oak.png", TRUE, 1)>>),
      \* a quadrilateral in relative references, then a five-corner face
      Archive(TRUE, TRUE,
              Square \o <<F(<<Ref(-4), Ref(-3), Ref(-2), Ref(-1)>>), V(1, 2, 0),
                          F(<<Ref(1), Ref(2), Ref(3), Ref(4), Ref(5)>>)>>,
              FALSE, FALSE, <<>>, <<>>),
      \* two source materials, a default one and an unknown one
      Archive(TRUE, TRUE,
              Triangle \o <<UseMtl("Wood-1"), F(<<Ref(1), Ref(2), Ref(3)>>),
                            UseMtl("Wood1"), F(<<Ref(3), Ref(2), Ref(1)>>),
                            UseMtl("steel"), F(<<Ref(1), Ref(3), Ref(2)>>),
                            UseMtl("Glass"), F(<<Ref(2), Ref(1), Ref(3)>>)>>,
              TRUE, TRUE,
              <<Block("Wood-1", NullName, <<600, 400, 200>>),
                Block("Wood1", NullName, <<200, 400, 600>>)>>,
              <<File("oak.png", FALSE, 2)>>),
      \* a face naming a vertex the file does not hold
      Archive(TRUE, TRUE, Triangle \o <<F(<<Ref(1), Ref(2), Ref(4)>>)>>,
              FALSE, FALSE, <<>>, <<>>),
      \* a face with a normal on its first corner only, and rejected normals
      Archive(TRUE, TRUE,
              Triangle \o <<VN(0, 1, 0), VN(0, 0, 0), VN(NaN, 0, 0),
                            F(<<RefN(1, 1), Ref(2), Ref(3)>>)>>,
              FALSE, FALSE, <<>>, <<>>),
      \* vertices and no face
      Archive(TRUE, TRUE, Triangle, FALSE, FALSE, <<>>, <<>>),
      \* a face and no vertex
      Archive(TRUE, TRUE, <<F(<<Ref(1), Ref(2), Ref(3)>>)>>, FALSE, FALSE, <<>>, <<>>),
      \* no .obj entry
      Archive(FALSE, FALSE, <<>>, FALSE, FALSE, <<>>, <<File("oak.png", TRUE, 1)>>),
      \* a texture, and an .obj entry that cannot be read
      Archive(TRUE, FALSE, <<>>, FALSE, FALSE, <<>>, <<File("oak.png", TRUE, 1)>>),
      \* a texture, and an .mtl entry that cannot be read
      Archive(TRUE, TRUE, Triangle, TRUE, FALSE, <<>>, <<File("oak.png", TRUE, 2)>>) }

NullPiece ==
    [isNull |-> TRUE, x |-> 0, y |-> 0, elevation |-> 0, angle |-> 0,
     width |-> 0, depth |-> 0, height |-> 0, color |-> NoColor,
     modelURL |-> NullName, catalogId |-> NullName]

Piece(angle, color, modelURL, catalogId) ==
    [isNull |-> FALSE, x |-> 200, y |-> 300, elevation |-> 0, angle |-> angle,
     width |-> 40, depth |-> 60, height |-> 80, color |-> color,
     modelURL |-> modelURL, catalogId |-> catalogId]

\* The furniture a home may hold.
Pieces ==
    { NullPiece,
      Piece(0, NoColor, NullName, NullName),
      Piece(1, Red16, NullName, NullName),
      Piece(1, NoColor, "jar:file:chest.jar!/chest.obj", NullName),
      Piece(0, Red16, NullName, "chest") }

\* -------------------------------------------------------------- exportToOBJ
\* home.getWalls (getRooms, getFurniture) is missing or returns null.
NoList == -1
\* A list exportHome has not asked the home for yet.
Unread == -2
\* The number of elements the loop over a list walks.
Size(list) == IF list < 0 THEN 0 ELSE list
\* The home before exportHome has read it.
UnreadHome == [walls |-> Unread, rooms |-> Unread, furniture |-> Unread]
\* The lists a home may still hold: at most MaxItems elements in all.
Lists == NoList..(MaxItems - (Size(home.walls) + Size(home.rooms) + Size(home.furniture)))

NoElement == [kind |-> "none", stage |-> "done"]
NoOutcome == [kind |-> "none"]
Thrown(message) == [kind |-> "error", message |-> message]

\* saveEntityMapping.php is run once per HTTP request; the web server runs
\* up to MaxRequests of them at a time.
MaxRequests == 2

\* The mapping file: missing until its first write, later empty (between
\* the open and the write of file_put_contents) or the JSON of the mappings,
\* furniture id -> entity id.
NoFile == [content |-> "missing", mappings |-> <<>>]

\* A script with no request in hand: no action, no furniture id, no copy of
\* the mappings, no response.
Idle ==
    [action |-> "none", pc |-> "idle", furnitureId |-> <<>>,
     mappings |-> <<>>, response |-> "none"]

\* No exportToServerAndDownload call: the exporter was made by another caller.
NotCalled == [at |-> "none"]

Init ==
    /\ vertices = reset.vertices
    /\ normals = reset.normals
    /\ texCoords = reset.texCoords
    /\ faces = reset.faces
    /\ materials = reset.materials
    /\ textures = reset.textures
    /\ currentMaterial = reset.currentMaterial
    /\ vertexIndex = reset.vertexIndex
    /\ normalIndex = reset.normalIndex
    /\ texCoordIndex = reset.texCoordIndex
    /\ pc = "idle"
    /\ home = UnreadHome
    /\ counts = [walls |-> 0, rooms |-> 0, furniture |-> 0]
    /\ cur = NoElement
    /\ pending = "none"
    /\ outcome = NoOutcome
    /\ downloads = <<>>
    /\ before = reset
    /\ discarded = FALSE
    /\ serverExport = NotCalled
    /\ steps = 0
    /\ mappingFile = NoFile
    /\ request = [r \in 1..MaxRequests |-> Idle]
    /\ saved = {}

\* The requests (texture fetches and archive requests) the handler in hand
\* has made when it reaches `r`: those of a handler resumed, or none, and the
\* one it suspends on.
requested(r) ==
    (IF pending = "none" THEN 0 ELSE cur.requests) +
    (IF r.stage \in {"done", "thrown"} THEN 0 ELSE 1)

\* A loop that does not await its handler: a suspended handler is taken for
\* a returned one, and the loop moves on while the request is in flight.
Proceed_unawaited(kind, el, i, r) ==
    /\ Store(r.t)
    /\ cur' = [kind |-> kind, el |-> el, i |-> i,
               stage |-> IF r.stage = "thrown" THEN "thrown" ELSE "done",
               locals |-> r.locals, requests |-> requested(r)]
    /\ pending' = IF r.stage \in {"done", "thrown"} THEN "none"
                  ELSE IF r.stage = "zip" THEN "zip" ELSE "texture"
    /\ counts' = IF r.stage = "done" THEN [counts EXCEPT ![kind] = @ + 1] ELSE counts
    /\ pc' = IF r.stage = "thrown" THEN "thrown" ELSE pc
    /\ outcome' = IF r.stage = "thrown" THEN Thrown(r.locals.message) ELSE outcome
    /\ discarded' = FALSE
    /\ steps' = steps + 1
    /\ UNCHANGED <<mappingFile, request, saved>>
    /\ UNCHANGED <<home, downloads, serverExport>>

\* A handler has returned, is suspended or has thrown at `r`: the pools are
\* stored, the request it awaits (if any) is in flight, a returned handler's
\* list counter is incremented, and an error is rethrown by exportToOBJ.
Proceed(kind, el, i, r) ==
    /\ Store(r.t)
    /\ cur' = [kind |-> kind, el |-> el, i |-> i, stage |-> r.stage, locals |-> r.locals,
               requests |-> requested(r)]
    /\ pending' = IF r.stage \in {"done", "thrown"} THEN "none"
                  ELSE IF r.stage = "zip" THEN "zip" ELSE "texture"
    /\ counts' = IF r.stage = "done" THEN [counts EXCEPT ![kind] = @ + 1] ELSE counts
    /\ pc' = IF r.stage = "thrown" THEN "thrown" ELSE pc
    /\ outcome' = IF r.stage = "thrown" THEN Thrown(r.locals.message) ELSE outcome
    /\ discarded' = FALSE
    /\ steps' = steps + 1
    /\ UNCHANGED <<mappingFile, request, saved>>
    /\ UNCHANGED <<home, downloads, serverExport>>

\* An exportToOBJ that does not call reset(): the export goes on from the
\* pools the instance holds.
ExportToOBJ_noReset ==
    /\ pc \in {"idle", "returned", "thrown"}
    /\ \E jsZip \in BOOLEAN, isNull \in BOOLEAN :
        /\ downloads' = <<>>
        /\ home' = UnreadHome
        /\ cur' = NoElement
        /\ pending' = "none"
        /\ counts' = [walls |-> 0, rooms |-> 0, furniture |-> 0]
        /\ steps' = 0
        /\ UNCHANGED <<mappingFile, request, saved>>
        /\ UNCHANGED serverExport
        /\ pc' = IF jsZip /\ ~isNull THEN "exportHome" ELSE "thrown"
        /\ outcome' = IF ~jsZip
                      THEN Thrown("JSZip library not loaded. Please include jszip.min.js")
                      ELSE IF isNull THEN Thrown("Home object is null or undefined")
                      ELSE NoOutcome
        /\ before' = IF jsZip /\ ~isNull THEN This ELSE before
        /\ discarded' = FALSE
        /\ UNCHANGED <<vertices, normals, texCoords, faces, materials,
                       textures, currentMaterial, vertexIndex, normalIndex,
                       texCoordIndex>>

\* exportToOBJ is called with a home not read yet: JSZip missing or a null
\* home throw before reset().
ExportToOBJ ==
    /\ pc \in {"idle", "returned", "thrown"}
    /\ \E jsZip \in BOOLEAN, isNull \in BOOLEAN :
        /\ downloads' = <<>>
        /\ home' = UnreadHome
        /\ cur' = NoElement
        /\ pending' = "none"
        /\ counts' = [walls |-> 0, rooms |-> 0, furniture |-> 0]
        /\ steps' = 0
        /\ UNCHANGED <<mappingFile, request, saved>>
        /\ UNCHANGED serverExport
        /\ IF ~jsZip
           THEN /\ pc' = "thrown"
                /\ outcome' = Thrown("JSZip library not loaded. Please include jszip.min.js")
                /\ discarded' = FALSE
                /\ UNCHANGED <<vertices, normals, texCoords, faces, materials,
                               textures, currentMaterial, vertexIndex, normalIndex,
                               texCoordIndex, before>>
           ELSE IF isNull
           THEN /\ pc' = "thrown"
                /\ outcome' = Thrown("Home object is null or undefined")
                /\ discarded' = FALSE
                /\ UNCHANGED <<vertices, normals, texCoords, faces, materials,
                               textures, currentMaterial, vertexIndex, normalIndex,
                               texCoordIndex, before>>
           ELSE /\ Store(reset)
                /\ pc' = "exportHome"
                /\ outcome' = NoOutcome
                /\ before' = reset
                /\ discarded' = (This # reset)

\* exportHome asks the home for a list: none (the accessor is missing or
\* returns null, and the loop is skipped as for an empty list), or a list
\* of some length.
ReadList(list) ==
    /\ pc = "exportHome" /\ cur.stage = "done"
    /\ home[list] = Unread
    /\ \E n \in Lists : home' = [home EXCEPT ![list] = Size(n)]
    /\ discarded' = FALSE
    /\ steps' = steps + 1
    /\ UNCHANGED <<mappingFile, request, saved>>
    /\ UNCHANGED serverExport
    /\ UNCHANGED <<vertices, normals, texCoords, faces, materials, textures,
                   currentMaterial, vertexIndex, normalIndex, texCoordIndex,
                   pc, counts, cur, pending, outcome, downloads, before>>

GetWalls == ReadList("walls")

GetRooms ==
    /\ home.walls # Unread /\ counts.walls = Size(home.walls)
    /\ ReadList("rooms")

GetFurniture ==
    /\ home.rooms # Unread /\ counts.rooms = Size(home.rooms)
    /\ ReadList("furniture")

HomeIsEmpty ==
    "No geometry exported. The home is empty - no walls, rooms, or furniture found."
FoundItems(totalItems) ==
    "No geometry exported. Found " \o ToString(totalItems) \o
    " items but failed to generate geometry."

\* A report that takes every export without geometry for a failed one.
noGeometry_alwaysFound(totalItems) == FoundItems(totalItems)

\* The error of exportHome when the vertex pool is empty after the loops.
noGeometry(totalItems) ==
    IF totalItems = 0 THEN HomeIsEmpty ELSE FoundItems(totalItems)

\* The wall loop of exportHome reaches walls[i].
ExportWall ==
    /\ pc = "exportHome" /\ cur.stage = "done"
    /\ counts.walls < Size(home.walls)
    /\ \E wall \in Walls :
        /\ before' = This
        /\ Proceed("walls", wall, counts.walls, exportWall(This, wall))

\* The room loop of exportHome reaches rooms[i].
ExportRoom ==
    /\ pc = "exportHome" /\ cur.stage = "done"
    /\ counts.rooms < Size(home.rooms)
    /\ \E room \in Rooms :
        /\ before' = This
        /\ Proceed("rooms", room, counts.rooms, exportRoom(This, room))

\* The furniture loop of exportHome reaches furniture[i].
ExportFurniture ==
    /\ pc = "exportHome" /\ cur.stage = "done"
    /\ counts.furniture < Size(home.furniture)
    /\ \E piece \in Pieces :
        /\ before' = This
        /\ Proceed("furniture", piece, counts.furniture,
                   exportFurniture(This, piece, furnitureName(counts.furniture)))

\* fetchTextureData settles: with the image's bytes, or by throwing.
FetchTextureSettles ==
    /\ pending = "texture"
    /\ \E ok \in BOOLEAN :
        IF cur.kind = "walls"
        THEN Proceed("walls", cur.el, cur.i,
                     resumeWall(This, cur.el, cur.i, cur.stage, cur.locals.left, ok))
        ELSE Proceed("rooms", cur.el, cur.i,
                     resumeRoom(This, cur.el, cur.i, cur.stage, cur.locals.left, ok))
    /\ UNCHANGED before

\* The position `r` of a furniture handler, with the archive it was given
\* kept beside its locals.
given(r, zip) ==
    [t |-> r.t, stage |-> r.stage,
     locals |-> [via |-> r.locals.via, error |-> r.locals.error,
                 atFallback |-> r.locals.atFallback, archive |-> zip]]

\* ZIPTools.getZIP calls zipReady with the archive.
ZipReady ==
    /\ pending = "zip"
    /\ \E zip \in Archives :
        Proceed("furniture", cur.el, cur.i,
                given(zipReady(This, zip, cur.el, furnitureName(cur.i)), zip))
    /\ UNCHANGED before

\* ZIPTools.getZIP calls zipError.
ZipError ==
    /\ pending = "zip"
    /\ Proceed("furniture", cur.el, cur.i, zipError(This, cur.el, furnitureName(cur.i)))
    /\ UNCHANGED before

\* exportHome has walked the three lists: it throws when the vertex pool is
\* empty, else exportToOBJ goes on to build the files.
ExportHomeEnds ==
    /\ pc = "exportHome" /\ cur.stage = "done"
    /\ home.furniture # Unread /\ counts.furniture = Size(home.furniture)
    /\ IF Len(vertices) = 0
       THEN /\ pc' = "thrown"
            /\ outcome' = Thrown(noGeometry(counts.walls + counts.rooms +
                                            counts.furniture))
       ELSE /\ pc' = "createZipFile"
            /\ UNCHANGED outcome
    /\ discarded' = FALSE
    /\ steps' = steps + 1
    /\ UNCHANGED <<mappingFile, request, saved>>
    /\ UNCHANGED serverExport
    /\ UNCHANGED <<vertices, normals, texCoords, faces, materials, textures,
                   currentMaterial, vertexIndex, normalIndex, texCoordIndex,
                   home, counts, cur, pending, downloads, before>>

\* An archive without the textures.
createZipFile_noTextures(t, done) ==
    [entries |-> {"home.obj", "materials.mtl"},
     obj |-> [vertices |-> t.vertices, faces |-> t.faces],
     mtl |-> DOMAIN t.materials,
     exported |-> done]

\* createZipFile's archive: the OBJ text, materials.mtl and every texture.
createZipFile(t, done) ==
    [entries |-> {"home.obj", "materials.mtl"} \cup DOMAIN t.textures,
     obj |-> [vertices |-> t.vertices, faces |-> t.faces],
     mtl |-> DOMAIN t.materials,
     exported |-> done]

\* The files are built and zipped, the archive is downloaded and the result
\* returned; when JSZip fails to generate, the error is thrown instead.
CreateZipFile ==
    /\ pc = "createZipFile"
    /\ \E generated \in BOOLEAN :
        IF generated
        THEN /\ downloads' = Append(downloads, createZipFile(This, counts))
             /\ pc' = "returned"
             /\ outcome' = [kind |-> "success", vertices |-> Len(vertices),
                            faces |-> Len(faces),
                            materials |-> Cardinality(DOMAIN materials),
                            textures |-> Cardinality(DOMAIN textures)]
        ELSE /\ pc' = "thrown"
             /\ outcome' = Thrown("JSZip generate failed")
             /\ UNCHANGED downloads
    /\ discarded' = FALSE
    /\ steps' = steps + 1
    /\ UNCHANGED <<mappingFile, request, saved>>
    /\ UNCHANGED serverExport
    /\ UNCHANGED <<vertices, normals, texCoords, faces, materials, textures,
                   currentMaterial, vertexIndex, normalIndex, texCoordIndex,
                   home, counts, cur, pending, before>>

Next ==
    \/ ExportToOBJ
    \/ GetWalls
    \/ GetRooms
    \/ GetFurniture
    \/ ExportWall
    \/ ExportRoom
    \/ ExportFurniture
    \/ FetchTextureSettles
    \/ ZipReady
    \/ ZipError
    \/ ExportHomeEnds
    \/ CreateZipFile

Spec == Init /\ [][Next]_vars

\* -------------------------------------------------------------- properties
\* The entries a pool has gained since it was `old`.
added(pool, old) == SubSeq(pool, Len(old) + 1, Len(pool))
\* The positions of a face's three corners.
corners(f) == [j \in 1..3 |-> vertices[f.vertices[j]]]
\* The handler of the element in hand has returned.
returned(kind) == cur.kind = kind /\ cur.stage = "done"

\* C1: every vertex index stored in a face of the face list lies between 1
\* and the current length of the vertex pool.
C1_FaceVerticesInPool ==
    \A k \in 1..Len(faces) : \A j \in 1..3 :
        faces[k].vertices[j] \in 1..Len(vertices)

\* C2: the three normal slots of every face are all null or all non-null,
\* and so are its three texture-coordinate slots.
C2_FaceSlotsAllOrNone ==
    \A k \in 1..Len(faces) :
        /\ \/ \A j \in 1..3 : faces[k].normals[j] = None
           \/ \A j \in 1..3 : faces[k].normals[j] # None
        /\ \/ \A j \in 1..3 : faces[k].texCoords[j] = None
           \/ \A j \in 1..3 : faces[k].texCoords[j] # None

\* What exportWall has added for a wall with distinct end points (a number
\* of triangles) and for a wall without length (nothing).
WallAdds(triangles) ==
    (returned("walls") /\ ~cur.el.isNull) =>
        IF cur.el.xStart # cur.el.xEnd \/ cur.el.yStart # cur.el.yEnd
        THEN Len(faces) = Len(before.faces) + triangles
        ELSE /\ vertices = before.vertices
             /\ normals = before.normals
             /\ faces = before.faces

C4_RoomTriangles ==
    (returned("rooms") /\ ~cur.el.isNull) =>
        LET n == Len(cur.el.points)
            new == added(faces, before.faces)
            plan(f) == [j \in 1..3 |-> <<corners(f)[j][1], corners(f)[j][3]>>]
        IN  IF n < 3
            THEN /\ vertices = before.vertices
                 /\ normals = before.normals
                 /\ texCoords = before.texCoords
                 /\ faces = before.faces
            ELSE /\ Len(new) = 2 * (n - 2)
                 /\ \A k \in 1..(n - 2) :
                      LET fl == plan(new[k])
                          ce == plan(new[n - 2 + k])
                      IN  /\ \A j \in 1..3 : corners(new[k])[j][2] = 0
                          /\ \A j \in 1..3 : corners(new[n - 2 + k])[j][2] = 250
                          /\ Cardinality({fl[1], fl[2], fl[3]}) = 3
                          /\ {fl[1], fl[2], fl[3]} \subseteq Range(cur.el.points)
                          /\ ce \in { <<fl[3], fl[2], fl[1]>>,
                                      <<fl[2], fl[1], fl[3]>>,
                                      <<fl[1], fl[3], fl[2]>> }

\* A textured room of five or more points has been exported.
C4_RoomExported ==
    /\ returned("rooms") /\ ~cur.el.isNull
    /\ Len(cur.el.points) >= 5
    /\ Len(faces) = Len(before.faces) + 2 * (Len(cur.el.points) - 2)
    /\ faces[Len(faces)].texCoords[1] # None

\* C5: when the load of a piece's model fails (zipError, no .obj entry, or
\* an entry that cannot be read), exportFurniture returns without throwing,
\* the twelve triangles of the bounding box are added, the piece is counted
\* and the loop of exportHome goes on: the export fails, if at all, only
\* when the archive is generated.
C5_FailedLoadFallsBack ==
    (cur.kind = "furniture" /\ cur.locals.error # NullName) =>
        /\ cur.stage = "done"
        /\ cur.locals.via = "box"
        /\ counts.furniture = cur.i + 1
        /\ Len(faces) = Len(cur.locals.atFallback.faces) + 12
        /\ \A k \in (Len(faces) - 11)..Len(faces) :
             faces[k].material = furnitureMaterialName(furnitureName(cur.i))
        /\ pc \in {"exportHome", "createZipFile", "returned", "thrown"}
        /\ pc = "thrown" => outcome = Thrown("JSZip generate failed")

\* The model of the first of two pieces failed to load, and the loop is about
\* to take the second.
C5_LoadFailed ==
    /\ cur.kind = "furniture" /\ cur.i = 0
    /\ cur.locals.error = "Failed to load ZIP"
    /\ cur.locals.via = "box"
    /\ pc = "exportHome"
    /\ counts.furniture < Size(home.furniture)

\* C6: when the load of a model fails after its archive was opened, the
\* pools and maps are, at the start of the bounding-box fallback, exactly as
\* they were before the piece was attempted.
C6_FallbackOnCleanSlate ==
    (cur.kind = "furniture" /\
     cur.locals.error \in {"No OBJ file found in model ZIP",
                           "selectedMtlFile.asText", "objFile.asText"}) =>
        LET t == cur.locals.atFallback
        IN  /\ t.vertices = before.vertices
            /\ t.normals = before.normals
            /\ t.texCoords = before.texCoords
            /\ t.faces = before.faces
            /\ DOMAIN t.textures = DOMAIN before.textures
            /\ DOMAIN t.materials = DOMAIN before.materials

\* What exportFurniture does for a piece without model reference and
\* catalog id: no request of an archive, and at once a box of 12 triangles
\* whose corners are the 8 corners of the piece's width, height and depth
\* turned by its yaw, held in a number of new entries of the vertex pool.
BoxAdds(entries) ==
    (cur.kind = "furniture" /\ ~cur.el.isNull /\
     cur.el.modelURL = NullName /\ cur.el.catalogId = NullName) =>
        LET piece == cur.el
            alongX == IF piece.angle % 2 = 0 THEN piece.width ELSE piece.depth
            alongZ == IF piece.angle % 2 = 0 THEN piece.depth ELSE piece.width
            box == {<<piece.x + sx * (alongX \div 2), piece.elevation + up,
                      piece.y + sz * (alongZ \div 2)>> :
                    sx \in {-1, 1}, up \in {0, piece.height}, sz \in {-1, 1}}
        IN  /\ cur.stage = "done" /\ pending = "none"
            /\ cur.locals.via = "box" /\ cur.locals.error = NullName
            /\ cur.locals.atFallback.vertices = before.vertices
            /\ cur.locals.atFallback.faces = before.faces
            /\ Len(vertices) = Len(before.vertices) + entries
            /\ Len(faces) = Len(before.faces) + 12
            /\ Range(added(vertices, before.vertices)) = box
            /\ Cardinality(box) = 8

\* C7 as stated: for a piece with no model reference and no catalog id no
\* archive is fetched and the fallback is an 8-vertex, 6-quad box: the vertex
\* pool grows by exactly 8 vertices and the face list by 12 triangles, sized
\* to the piece and rotated by its yaw.
C7_BoxAddsEightVertices == BoxAdds(8)

\* C7 amended: for a piece with no model reference and no catalog id no
\* archive is fetched and the fallback is a box of 6 quads: the face list
\* grows by 12 triangles and the vertex pool by 36 entries (three for each
\* triangle, nothing shared), which are the 8 corners of the box sized to the
\* piece and rotated by its yaw.
C7_BoxAddsThirtySixEntries == BoxAdds(36)

\* A piece without model, turned by a quarter, got its box after another
\* element.
C7_BoxExported ==
    /\ returned("furniture") /\ ~cur.el.isNull
    /\ cur.el.modelURL = NullName /\ cur.el.catalogId = NullName
    /\ cur.el.angle = 1
    /\ Len(before.vertices) > 0
    /\ Len(vertices) = Len(before.vertices) + 36

total(c) == c.walls + c.rooms + c.furniture
\* exportHome has walked the three lists of the home to their ends.
walked == home.furniture # Unread /\ counts = home
\* exportToOBJ threw the error that says items were found.
foundItemsThrown ==
    /\ pc = "thrown" /\ outcome.kind = "error"
    /\ \E n \in 0..MaxItems : outcome.message = FoundItems(n)

\* C8: an export of a home whose three lists are empty or absent fails with
\* the error that says the home is empty; the error that says items were
\* found is thrown exactly when the lists were walked, at least one entry was
\* iterated and the vertex pool is empty afterwards.
C8_EmptyHomeError ==
    /\ (walked /\ pc # "exportHome" /\ total(home) = 0) =>
           (pc = "thrown" /\ outcome = Thrown(HomeIsEmpty))
    /\ foundItemsThrown <=>
           (walked /\ pc # "exportHome" /\ total(counts) > 0 /\ Len(vertices) = 0)
    /\ foundItemsThrown => outcome.message = FoundItems(total(counts))

\* The export of a home without any element has failed.
C8_EmptyHomeExported ==
    /\ walked /\ total(home) = 0
    /\ pc = "thrown" /\ outcome = Thrown(HomeIsEmpty)

\* C9: whenever exportToOBJ returns a success result the export holds at
\* least one vertex and at least one face.
C9_SuccessHasGeometry ==
    outcome.kind = "success" =>
        /\ outcome.vertices >= 1 /\ Len(vertices) >= 1
        /\ outcome.faces >= 1 /\ Len(faces) >= 1

\* C10: a call that throws has downloaded nothing; a call that returns has
\* downloaded exactly one archive, built after every wall, room and piece of
\* the home was processed, which holds the OBJ text of the pools, materials.mtl
\* and every texture of the texture map; nothing is downloaded before that,
\* and success is never returned without the download.
C10_AllOrNothing ==
    /\ Len(downloads) <= 1
    /\ pc # "returned" => downloads = <<>>
    /\ outcome.kind = "success" <=> pc = "returned"
    /\ pc = "returned" =>
          /\ Len(downloads) = 1
          /\ walked /\ downloads[1].exported = home
          /\ {"home.obj", "materials.mtl"} \cup DOMAIN textures
                 \subseteq downloads[1].entries
          /\ downloads[1].obj = [vertices |-> vertices, faces |-> faces]
          /\ downloads[1].mtl = DOMAIN materials

\* A home of two elements was exported and downloaded with a texture.
C10_Downloaded ==
    /\ pc = "returned" /\ Len(downloads) = 1
    /\ total(home) = 2
    /\ DOMAIN textures # {}
    /\ DOMAIN textures \subseteq downloads[1].entries

\* ---------------------------------------------------------------- C11..C20
\* `old` is a prefix of `pool`: the pool has only been appended to.
isPrefix(old, pool) == Len(old) <= Len(pool) /\ SubSeq(pool, 1, Len(old)) = old
\* The six pools of the exporter, primed and unprimed.
pools == <<vertices, normals, texCoords, faces, materials, textures>>

\* The element in hand is the next of its list, its list is the one the
\* order walls, rooms, furniture has reached, a request is in flight exactly
\* while its handler is suspended, and the pools hold what they held when it
\* started plus what it appended.
oneAtATime ==
    (pc = "exportHome" /\ cur.kind # "none") =>
        /\ cur.i = IF cur.stage = "done" THEN counts[cur.kind] - 1 ELSE counts[cur.kind]
        /\ (pending # "none") <=> (cur.stage \notin {"done", "thrown"})
        /\ cur.kind = "walls" =>
              /\ counts.rooms = 0 /\ counts.furniture = 0
              /\ (cur.stage # "done" \/ counts.walls < home.walls) =>
                     (home.rooms = Unread /\ home.furniture = Unread)
        /\ cur.kind = "rooms" =>
              /\ counts.walls = home.walls /\ counts.furniture = 0
              /\ (cur.stage # "done" \/ counts.rooms < home.rooms) =>
                     home.furniture = Unread
        /\ cur.kind = "furniture" =>
              /\ counts.walls = home.walls /\ counts.rooms = home.rooms
        /\ isPrefix(before.vertices, vertices)
        /\ isPrefix(before.normals, normals)
        /\ isPrefix(before.texCoords, texCoords)
        /\ isPrefix(before.faces, faces)

\* A step that writes to a pool within exportHome is a step of the element
\* in hand: of the next element when the last handler has returned (and then
\* `before` is the pools as that handler left them), else of the suspended
\* handler itself; and it leaves every face already in the list where it is.
stepOfElementInHand ==
    (pc = "exportHome" /\ pools' # pools) =>
        /\ cur'.kind # "none"
        /\ isPrefix(faces, faces')
        /\ IF cur.stage = "done"
           THEN /\ pending = "none"
                /\ cur'.i = counts[cur'.kind]
                /\ before' = This
           ELSE /\ cur'.kind = cur.kind /\ cur'.i = cur.i /\ cur'.el = cur.el
                /\ before' = before

\* C11: within one exportToOBJ call the elements are processed one at a time
\* in the order walls, rooms, furniture, each list in source order: the
\* processing of an element, its fetches and its writes to the pools
\* included, is complete before the next element starts, and the face list
\* is ordered by that element order.
C11_OneElementAtATime == []oneAtATime /\ [][stepOfElementInHand]_vars

\* A room awaits its ceiling texture after a first element and its own floor
\* have added faces.
C11_SecondElementSuspended ==
    /\ pc = "exportHome" /\ cur.kind = "rooms" /\ cur.stage = "ceiling"
    /\ pending = "texture"
    /\ Len(before.faces) > 0
    /\ Len(faces) > Len(before.faces)

\* The colours the surfaces of the model carry.
Colors == {Red16, 255}
SurfaceKinds == {"wall", "wall_right", "floor", "ceiling"}
\* The flat-colour names of each surface kind.
FlatNames == [k \in SurfaceKinds |-> {colorMaterialName(k, c) : c \in Colors}]
kindNames(prefix) == FlatNames[prefix]
DiffuseOf == [c \in Colors |->
                <<Channel(Red(c)), Channel(Green(c)), Channel(Blue(c))>>]
diffuseOf(color) == DiffuseOf[color]

\* One resolved surface of an element: its kind, the finish of its kind, the
\* name of its textured slot, its colour and the name the handler got.
Surface(prefix, specular, shininess, slot, color, name) ==
    [prefix |-> prefix, specular |-> specular, shininess |-> shininess,
     slot |-> slot, color |-> color, name |-> name]

\* The surfaces the returned handler of the element in hand resolved as a
\* flat colour: the colour is set and the name is not the textured slot's.
flatSurfaces ==
    LET all ==
          IF cur.kind = "walls" /\ cur.stage = "done"
          THEN { Surface("wall", 300, 20, wallName(cur.i, "left_textured"),
                         cur.el.leftSideColor, cur.locals.left),
                 Surface("wall_right", 300, 20, wallName(cur.i, "right_textured"),
                         cur.el.rightSideColor, cur.locals.right) }
          ELSE IF cur.kind = "rooms" /\ cur.stage = "done"
          THEN { Surface("floor", 100, 10, roomName(cur.i, "floor_textured"),
                         cur.el.floorColor, cur.locals.left),
                 Surface("ceiling", 100, 10, roomName(cur.i, "ceiling_textured"),
                         cur.el.ceilingColor, cur.locals.right) }
          ELSE {}
    IN  {s \in all : s.name # NullName /\ truthy(s.color) /\ s.name # s.slot}

\* The flat-colour records of the material map whose colour is `color`,
\* among the names of `kinds`.
recordsOf(color, kinds) ==
    {n \in (DOMAIN materials) \cap UNION {kindNames(k) : k \in kinds} :
        materials[n].diffuse = diffuseOf(color)}

texturedSlots ==
    LET all ==
          IF cur.kind = "walls"
          THEN { [slot |-> wallName(cur.i, "left_textured"),
                  url |-> cur.el.leftSideTexture.url, name |-> cur.locals.left],
                 [slot |-> wallName(cur.i, "right_textured"),
                  url |-> cur.el.rightSideTexture.url, name |-> cur.locals.right] }
          ELSE IF cur.kind = "rooms" /\ cur.stage # "thrown"
          THEN { [slot |-> roomName(cur.i, "floor_textured"),
                  url |-> cur.el.floorTexture.url, name |-> cur.locals.left],
                 [slot |-> roomName(cur.i, "ceiling_textured"),
                  url |-> cur.el.ceilingTexture.url, name |-> cur.locals.right] }
          ELSE {}
    IN  {s \in all : s.name = s.slot}

\* C13: no two entries of the texture map hold the same bytes: bytes equal
\* to a stored texture's give the stored name and no new entry, whatever the
\* base name or URL, and bytes that differ from every stored texture give
\* one new entry under a new name.  The entries an element found stay as they
\* were, every texture a material names is an entry, and the texture of a
\* slot just resolved holds the bytes fetched for it.
C13_NoTwoEntriesSameBytes ==
    /\ \A n1, n2 \in DOMAIN textures : textures[n1] = textures[n2] => n1 = n2
    /\ \A n \in DOMAIN before.textures :
          has(textures, n) /\ textures[n] = before.textures[n]
    /\ \A m \in DOMAIN materials :
          materials[m].texture # NullName => has(textures, materials[m].texture)
    /\ \A s \in texturedSlots :
          /\ has(materials, s.slot)
          /\ textures[materials[s.slot].texture] = Bytes(s.url)
          /\ Cardinality(DOMAIN textures) <=
                Cardinality(DOMAIN before.textures) + Cardinality(texturedSlots)

\* The two sides of a wall have images of different URLs and the same bytes:
\* one entry serves both; a texture of other bytes is stored beside it.
C13_SameBytesStoredOnce ==
    /\ returned("walls")
    /\ Cardinality(texturedSlots) = 2
    /\ cur.el.leftSideTexture.url # cur.el.rightSideTexture.url
    /\ materials[cur.locals.left].texture = materials[cur.locals.right].texture
    /\ Cardinality(DOMAIN textures) = 2

\* The surfaces of the priority rule the returned handler of the element in
\* hand resolved: a wall's left side, a room's floor and ceiling.
prioritySurfaces ==
    LET all ==
          IF cur.kind = "walls" /\ cur.stage = "done"
          THEN { [prefix |-> "wall", default |-> "default_wall",
                  slot |-> wallName(cur.i, "left_textured"),
                  texture |-> cur.el.leftSideTexture,
                  color |-> cur.el.leftSideColor, name |-> cur.locals.left] }
          ELSE IF cur.kind = "rooms" /\ cur.stage = "done"
          THEN { [prefix |-> "floor", default |-> "default_floor",
                  slot |-> roomName(cur.i, "floor_textured"),
                  texture |-> cur.el.floorTexture,
                  color |-> cur.el.floorColor, name |-> cur.locals.left],
                 [prefix |-> "ceiling", default |-> "default_ceiling",
                  slot |-> roomName(cur.i, "ceiling_textured"),
                  texture |-> cur.el.ceilingTexture,
                  color |-> cur.el.ceilingColor, name |-> cur.locals.right] }
          ELSE {}
    IN  {s \in all : s.name # NullName}

\* The name of surface `s` is the one the priority rule gives.
followsPriority(s) ==
    LET flat == IF s.color # NoColor
                THEN s.prefix \o "_" \o ToString(Red(s.color)) \o "_" \o
                     ToString(Green(s.color)) \o "_" \o ToString(Blue(s.color))
                ELSE s.default
    IN  /\ s.name \in {s.slot, flat}
        /\ s.name = s.slot =>
              /\ hasURL(s.texture)
              /\ materials[s.slot].texture # NullName

\* C14: for a wall's left side, a room floor and a room ceiling the material
\* is the slot's textured material when the surface has a texture whose image
\* was fetched (a colour being set or not); otherwise, when a colour is set,
\* whatever its RGB value, the flat-colour material named from its channels;
\* otherwise the default of the surface kind.
C14_MaterialPriority == \A s \in prioritySurfaces : followsPriority(s)

\* C15: a wall with neither a usable right-side texture nor a right-side
\* colour has on its back face the material that was resolved for its front
\* face, however the fetches of its textures ended.
C15_BackReusesFront ==
    (returned("walls") /\ cur.locals.left # NullName /\
     cur.locals.right # wallName(cur.i, "right_textured") /\
     cur.el.rightSideColor = NoColor) =>
        LET new == added(faces, before.faces)
        IN  /\ cur.locals.right = cur.locals.left
            /\ new[3].material = new[1].material
            /\ new[4].material = new[2].material

\* The handler of the element in hand has integrated the mesh of an archive.
integrated == cur.kind = "furniture" /\ cur.locals.via = "model"
\* The faces the integration of that mesh added.
meshFaces == added(faces, cur.locals.atFallback.faces)

\* The source material name (usemtl) in force at each face the lines of a
\* mesh give, in face order; NullName before the first usemtl.
RECURSIVE sourceOfFaces(_, _, _)
sourceOfFaces(lines, k, source) ==
    IF k > Len(lines) THEN <<>>
    ELSE IF lines[k].k = "usemtl" THEN sourceOfFaces(lines, k + 1, lines[k].name)
    ELSE IF lines[k].k = "f"
    THEN [j \in 1..(IF Len(lines[k].corners) >= 3 THEN Len(lines[k].corners) - 2 ELSE 0)
            |-> source] \o sourceOfFaces(lines, k + 1, source)
    ELSE sourceOfFaces(lines, k + 1, source)

\* The blocks of the archive's library, or of the default library, whose
\* name is `source`, exactly or ignoring case.
libraryBlocks(zip, source) ==
    LET own == IF zip.hasMtl THEN Range(zip.mtl) ELSE {}
        named(S, match(_)) == {b \in S : match(b.name)}
        exact == named(own, LAMBDA n : n = source)
        loose == named(own, LAMBDA n : toLowerCase(n) = toLowerCase(source))
    IN  IF exact # {} THEN exact ELSE loose

inDefaults(source) ==
    \E n \in DOMAIN defaultMaterials : toLowerCase(n) = toLowerCase(source)

\* C16: while one furniture mesh is integrated, each source material name
\* found in the material library gets a record of its own: faces under two
\* different source names never carry the same material name, faces under
\* the same source name carry the same one, and the record holds the colour
\* the library gives that source name.
C16_OneRecordPerSourceName ==
    integrated =>
        LET zip == cur.locals.archive
            source == sourceOfFaces(zip.obj, 1, NullName)
            found(s) == s # NullName /\ (libraryBlocks(zip, s) # {} \/ inDefaults(s))
        IN  /\ Len(source) = Len(meshFaces)
            /\ \A i, j \in 1..Len(meshFaces) :
                  (found(source[i]) /\ found(source[j])) =>
                      (source[i] = source[j] <=>
                          meshFaces[i].material = meshFaces[j].material)
            /\ \A i \in 1..Len(meshFaces) :
                  (found(source[i]) /\ libraryBlocks(zip, source[i]) # {}) =>
                      /\ has(materials, meshFaces[i].material)
                      /\ \E b \in libraryBlocks(zip, source[i]) :
                            materials[meshFaces[i].material].diffuse = b.Kd

\* ------------------------------------------------- buildOBJContent, re-read
\* The largest index a face line of an export can hold: an element adds at
\* most 36 vertices.
MaxIndex == 36 * MaxItems
\* `${n}` for the integers a face line can hold, and parseInt of such a text.
DecimalText == [n \in (-MaxIndex)..MaxIndex |-> ToString(n)]
ParsedText == [s \in Range([k \in 1..(2 * MaxIndex + 1) |-> DecimalText[k - MaxIndex - 1]])
                 |-> CHOOSE n \in DOMAIN DecimalText : DecimalText[n] = s]
\* parseInt: the integer a decimal text stands for, NaN for any other text.
parseInt(s) == IF s \in DOMAIN ParsedText THEN ParsedText[s] ELSE NaN
\* A template literal's text of an index slot: null is written "null".
slotText(slot) == IF slot = None THEN "null" ELSE ToString(slot[1])

\* The face line buildOBJContent writes for one face: its three parts, each
\* split at "/".  The first corner's slots decide the variant of all three.
buildFaceLine(face) ==
    LET hasTexCoords == face.texCoords[1] # None
        hasNormals == face.normals[1] # None
    IN  [j \in 1..3 |->
            IF hasTexCoords /\ hasNormals
            THEN <<ToString(face.vertices[j]), slotText(face.texCoords[j]),
                   slotText(face.normals[j])>>
            ELSE IF hasNormals
            THEN <<ToString(face.vertices[j]), "", slotText(face.normals[j])>>
            ELSE IF hasTexCoords
            THEN <<ToString(face.vertices[j]), slotText(face.texCoords[j])>>
            ELSE <<ToString(face.vertices[j])>>]

\* One part of a face line as integrateOBJContent reads it: parseInt of the
\* vertex, and of the second and third field when they are there and not
\* empty.
parseFacePart(part) ==
    [v |-> parseInt(part[1]),
     vt |-> IF Len(part) >= 2 /\ part[2] # "" THEN Some(parseInt(part[2])) ELSE None,
     vn |-> IF Len(part) >= 3 /\ part[3] # "" THEN Some(parseInt(part[3])) ELSE None]

\* The faces a written face line gives when it is read back with offsets 0.
rereadFaceLine(t, parts) ==
    facesOfLine(t, faceVerts(t, [j \in 1..Len(parts) |-> parseFacePart(parts[j])],
                             [vertexOffset |-> 0, texCoordOffset |-> 0,
                              normalOffset |-> 0]))

\* Face `f` written and read back is `f` again, slot for slot.
roundTrips(f) ==
    LET back == rereadFaceLine(This, buildFaceLine(f))
    IN  /\ Len(back) = 1
        /\ back[1].vertices = f.vertices
        /\ back[1].texCoords = f.texCoords
        /\ back[1].normals = f.normals

\* C17: every face of a face list an export can reach, written by
\* buildOBJContent and read back with the face-reference rules of
\* integrateOBJContent at offsets 0, is the same face in the same place, with
\* the same vertex, texture-coordinate and normal index (or none) in each of
\* its three slots.
C17_FaceLinesRoundTrip == \A k \in 1..Len(faces) : roundTrips(faces[k])

\* name.includes('/') on the texture names of the model: the names built on
\* the stem of an archive entry that lies in a folder.
hasPathSeparator(name) ==
    \E i \in 0..MaxItems, counter \in {""} \cup {"_" \o ToString(n) : n \in 1..MaxItems} :
        name = "furniture_" \o furnitureName(i) \o "_" \o stem("tex/grain.jpg")
                 \o counter \o ".jpg"

\* C18: every key of the texture map, which is the texture's entry name in
\* the output archive and its map_Kd value, is a bare file name without a
\* path separator, for the textures of walls and rooms and for the textures
\* taken from a furniture archive, whatever their path in that archive.
C18_TextureKeysBare == \A n \in DOMAIN textures : ~hasPathSeparator(n)

\* The errors exportToOBJ throws for other reasons than an element's
\* accessor: JSZip or the home is missing, no geometry was exported, or the
\* archive could not be generated.
OtherErrors ==
    { "JSZip library not loaded. Please include jszip.min.js",
      "Home object is null or undefined",
      HomeIsEmpty, "JSZip generate failed" } \cup
    {FoundItems(n) : n \in 0..MaxItems}

\* C19: exportToOBJ never fails because an accessor of the home, a wall, a
\* room or a piece is missing or returns null: no handler throws, the element
\* gets a default or is skipped, and the export goes on.
C19_NullAccessorNeverFatal ==
    /\ cur.stage # "thrown"
    /\ pc = "thrown" => outcome.message \in OtherErrors

\* A vector with a NaN component, or with every component below 1e-6 in
\* magnitude.
degenerate(n) ==
    \/ \E j \in 1..3 : isNaN(n[j])
    \/ \A j \in 1..3 : Abs(n[j]) < 1

\* C20: the normal pool never holds a vector with a NaN component or one
\* whose components are all below 1e-6 in magnitude, be it the normal of
\* generated geometry or of a vn line of a furniture mesh; a rejected normal
\* adds no entry and advances no index, so the next index is the pool's
\* length plus one and a face refers to a normal of the pool or to none.
C20_NormalPoolClean ==
    /\ \A k \in 1..Len(normals) : ~degenerate(normals[k])
    /\ normalIndex = Len(normals) + 1
    /\ \A k \in 1..Len(faces), j \in 1..3 :
          faces[k].normals[j] # None => faces[k].normals[j][1] \in 1..Len(normals)

\* ------------------------------------------------------- reset, exportToOBJ
\* exportToOBJ has passed its checks and reset(), and exportHome has not yet
\* exported an element.
exportStarted == pc = "exportHome" /\ cur = NoElement

\* C21: every exportToOBJ call starts from empty state, on a new instance
\* and on one that has completed earlier exports alike: when exportHome
\* starts, the pools, the material and texture maps are empty, the indices
\* are 1, no material is current, nothing is counted, awaited or downloaded,
\* and so the export of a home and its returned counts depend on the home
\* and the fetch results only.
C21_StartsFromEmptyState ==
    exportStarted =>
        /\ vertices = <<>> /\ normals = <<>> /\ texCoords = <<>> /\ faces = <<>>
        /\ DOMAIN materials = {} /\ DOMAIN textures = {}
        /\ currentMaterial = NullName
        /\ vertexIndex = 1 /\ normalIndex = 1 /\ texCoordIndex = 1
        /\ counts = [walls |-> 0, rooms |-> 0, furniture |-> 0]
        /\ pending = "none" /\ outcome = NoOutcome /\ downloads = <<>>

\* An instance whose pools held an earlier export has been reset by the call
\* in hand.
C21_UsedInstanceRestarted == exportStarted /\ discarded

\* ------------------------------------------------------- exportWall, a case
\* The wall from (0,0) to (100,0), 250 high and 10 thick, without colour or
\* texture.
plainWall == Wall(100, 0, NoTexture, NoColor, NoTexture, NoColor)
\* The rectangle x in 0..100, y in 0..250 at depth z: its four corners.
rectangle(z) == { <<0, 0, z>>, <<100, 0, z>>, <<100, 250, z>>, <<0, 250, z>> }
\* The corners of the k-th quad among the faces `new`: of its two triangles.
quadCorners(new, k) ==
    {corners(new[2 * k - 1])[j] : j \in 1..3} \cup {corners(new[2 * k])[j] : j \in 1..3}

\* What exportWall has added for the plain wall: a number of quads, the first
\* over the rectangle at z = -5 and the second over the one at z = +5.
PlainWallGives(quads) ==
    (returned("walls") /\ cur.el = plainWall) =>
        LET new == added(faces, before.faces)
        IN  /\ Len(new) = 2 * quads
            /\ quadCorners(new, 1) = rectangle(-5)
            /\ quadCorners(new, 2) = rectangle(5)

indicesFollowPools ==
    /\ vertexIndex = Len(vertices) + 1
    /\ normalIndex = Len(normals) + 1
    /\ texCoordIndex = Len(texCoords) + 1

\* Called now, addVertex, addTexCoord and a non-null addNormal return the
\* position of the entry they append, and a null addNormal appends nothing.
returnsPosition ==
    /\ LET t1 == addVertex(This, <<0, 250, 0>>)
       IN  /\ Len(t1.vertices) = vertexIndex
           /\ t1.vertices[vertexIndex] = <<0, 250, 0>>
    /\ LET t1 == addTexCoord(This, 0, 1)
       IN  /\ Len(t1.texCoords) = texCoordIndex
           /\ t1.texCoords[texCoordIndex] = <<0, 1>>
    /\ \A n \in {<<0, 1, 0>>, <<0, 0, 0>>, <<NaN, 0, 1>>} :
          LET t1 == addNormal(This, n)
              index == addNormalIndex(This, n)
          IN  IF index = None
              THEN t1.normals = normals
              ELSE /\ Len(t1.normals) = index[1]
                   /\ t1.normals[index[1]] = n

\* A step that is not the reset() of a new export keeps every pool entry in
\* its place.
keepsEntries ==
    \/ pc # "exportHome" /\ pc' = "exportHome"
    \/ /\ isPrefix(vertices, vertices')
       /\ isPrefix(normals, normals')
       /\ isPrefix(texCoords, texCoords')

\* C23: at every point of an exporter's life vertexIndex, normalIndex and
\* texCoordIndex are the lengths of their pools plus one, so the index
\* returned by addVertex, addTexCoord or a non-null addNormal is the 1-based
\* position of the entry just appended, and no pool entry is removed or
\* reordered before the next reset.
C23_IndicesFollowPools ==
    /\ [](indicesFollowPools /\ returnsPosition)
    /\ [][keepsEntries]_vars

\* A furniture mesh with texture coordinates and normals has been imported
\* into pools that held generated geometry.
C23_MeshImportedAfterGeometry ==
    /\ integrated
    /\ Len(before.vertices) > 0
    /\ Len(texCoords) > Len(before.texCoords)
    /\ Len(normals) > Len(before.normals)
    /\ indicesFollowPools

\* ------------------------------------------------- integrateOBJContent, faces
\* A face reference under the two rules: i > 0 is the i-th entry the mesh
\* adds to a pool that held n, and -j is the j-th most recent entry of the
\* pool as it stands with `len` entries.
resolved(i, n, len) == IF i > 0 THEN n + i ELSE len + 1 + i
resolvedOptional(ref, n, len) == IF ref = None THEN None ELSE Some(resolved(ref[1], n, len))

\* The corners of the faces the lines of a mesh give, in order, when the
\* pools held n.v, n.vt and n.vn entries before the mesh and `read` counts
\* the v, vt and vn lines met so far: a face line of k >= 3 corners gives k-2
\* triangles on its first corner.
RECURSIVE fanOfLines(_, _, _, _)
fanOfLines(lines, k, n, read) ==
    IF k > Len(lines) THEN <<>>
    ELSE LET line == lines[k]
             count(kind) == IF line.k = kind THEN 1 ELSE 0
             corner(j) ==
                 [v |-> resolved(line.corners[j].v, n.v, n.v + read.v),
                  vt |-> resolvedOptional(line.corners[j].vt, n.vt, n.vt + read.vt),
                  vn |-> resolvedOptional(line.corners[j].vn, n.vn, n.vn + read.vn)]
             fan == IF line.k = "f" /\ Len(line.corners) >= 3
                    THEN [j \in 1..(Len(line.corners) - 2) |->
                             <<corner(1), corner(j + 1), corner(j + 2)>>]
                    ELSE <<>>
         IN  fan \o fanOfLines(lines, k + 1, n,
                               [v |-> read.v + count("v"), vt |-> read.vt + count("vt"),
                                vn |-> read.vn + count("vn")])

\* The mesh in hand has a face line of k corners, and a relative reference.
meshHasFaceOf(k) ==
    \E j \in 1..Len(cur.locals.archive.obj) :
        /\ cur.locals.archive.obj[j].k = "f"
        /\ Len(cur.locals.archive.obj[j].corners) = k
meshHasRelative ==
    \E j \in 1..Len(cur.locals.archive.obj) :
        /\ cur.locals.archive.obj[j].k = "f"
        /\ \E c \in 1..Len(cur.locals.archive.obj[j].corners) :
              cur.locals.archive.obj[j].corners[c].v < 0

\* C24: when integrateOBJContent imports a mesh into a vertex pool of n
\* vertices, a face corner with positive vertex index i resolves to n+i and a
\* corner with negative index -j to the pool's current length + 1 - j; the
\* same holds for texture-coordinate and normal references against their
\* pools, and a face line of k >= 3 corners yields exactly k-2 triangles all
\* sharing its first corner.
C24_FaceReferencesResolved ==
    integrated =>
        LET at == cur.locals.atFallback
            fans == fanOfLines(cur.locals.archive.obj, 1,
                               [v |-> Len(at.vertices), vt |-> Len(at.texCoords),
                                vn |-> Len(at.normals)],
                               [v |-> 0, vt |-> 0, vn |-> 0])
        IN  /\ Len(meshFaces) = Len(fans)
            /\ \A k \in 1..Len(fans) : \A j \in 1..3 :
                  /\ meshFaces[k].vertices[j] = fans[k][j].v
                  /\ meshFaces[k].texCoords[j] = fans[k][j].vt
                  /\ meshFaces[k].normals[j] = fans[k][j].vn

\* A mesh with a quadrilateral in relative references and a five-corner face
\* has been imported into pools that held geometry.
C24_FanAndRelativeImported ==
    /\ integrated
    /\ Len(cur.locals.atFallback.vertices) > 0
    /\ meshHasFaceOf(4) /\ meshHasFaceOf(5) /\ meshHasRelative
    /\ Len(meshFaces) = 5

\* ---------------------------------------------------------- exportFurniture
\* C25: for every non-null furniture piece, when exportFurniture returns the
\* face list has grown by at least one face: by the faces of the model that
\* was loaded, or by the 12 faces of the fallback box; a piece whose archive
\* loads but gives no face is not exported as nothing.
C25_PieceAddsFaces ==
    (returned("furniture") /\ ~cur.el.isNull) =>
        IF cur.locals.via = "model"
        THEN Len(faces) > Len(before.faces)
        ELSE Len(faces) = Len(before.faces) + 12

\* ------------------------------------------- exportToServerAndDownload
\* The static methods class UnityExportUtilities declares, in either copy of
\* unity-export-utils.js.
StaticMethods ==
    { "exportForUnity", "exportToServerAndDownload", "extractDeviceMetadata",
      "isIoTDevice", "getDeviceType", "generateUnityImportScript", "toPascalCase",
      "downloadBlob", "extractTexturesFromWebGL", "extractEffectPropagation",
      "calculateAffectedArea", "calculateRoomFilledArea", "calculateCircularArea",
      "calculateSquareArea", "calculateDirectionalArea", "findRoomContaining",
      "isPointInRoom", "sampleWallConstrainedPoints", "pathCrossesWalls",
      "lineSegmentsIntersect", "getParticleSettings" }

\* The call's position: awaiting exportToOBJ, returned or thrown; `http` is
\* what the server would answer to a POST, `request` the POST sent (if any).
Awaiting(http) ==
    [at |-> "exportToOBJ", http |-> http, request |-> <<>>, outcome |-> NoOutcome]

\* exportToServerAndDownload has made an exporter and called exportToOBJ.
InitServer ==
    /\ vertices = reset.vertices
    /\ normals = reset.normals
    /\ texCoords = reset.texCoords
    /\ faces = reset.faces
    /\ materials = reset.materials
    /\ textures = reset.textures
    /\ currentMaterial = reset.currentMaterial
    /\ vertexIndex = reset.vertexIndex
    /\ normalIndex = reset.normalIndex
    /\ texCoordIndex = reset.texCoordIndex
    /\ pc = "idle"
    /\ home = UnreadHome
    /\ counts = [walls |-> 0, rooms |-> 0, furniture |-> 0]
    /\ cur = NoElement
    /\ pending = "none"
    /\ outcome = NoOutcome
    /\ downloads = <<>>
    /\ before = reset
    /\ discarded = FALSE
    /\ serverExport \in {Awaiting(http) : http \in {"ok", "failed"}}
    /\ steps = 0
    /\ mappingFile = NoFile
    /\ request = [r \in 1..MaxRequests |-> Idle]
    /\ saved = {}

\* The awaited exportToOBJ rejects: the error leaves exportToServerAndDownload.
ExportRejects ==
    /\ serverExport.at = "exportToOBJ" /\ pc = "thrown"
    /\ serverExport' = [serverExport EXCEPT !.at = "thrown", !.outcome = outcome]
    /\ UNCHANGED <<vertices, normals, texCoords, faces, materials, textures,
                   currentMaterial, vertexIndex, normalIndex, texCoordIndex,
                   pc, home, counts, cur, pending, outcome, downloads, before,
                   discarded, steps, mappingFile, request, saved>>

\* The awaited exportToOBJ has returned: the texts are built, the home is
\* serialized by this.serializeHome, the POST is sent and its JSON returned.
\* Calling a method the class does not have throws a TypeError.
SendToServer ==
    /\ serverExport.at = "exportToOBJ" /\ pc = "returned"
    /\ serverExport' =
          IF "serializeHome" \notin StaticMethods
          THEN [serverExport EXCEPT
                   !.at = "thrown",
                   !.outcome = Thrown("this.serializeHome is not a function")]
          ELSE LET post == [home_name |-> "baseName", home_data |-> home,
                            obj_data |-> [vertices |-> vertices, faces |-> faces],
                            mtl_data |-> DOMAIN materials]
               IN  IF serverExport.http = "ok"
                   THEN [serverExport EXCEPT !.at = "returned", !.request = <<post>>,
                                             !.outcome = [kind |-> "json"]]
                   ELSE [serverExport EXCEPT !.at = "thrown", !.request = <<post>>,
                                             !.outcome = Thrown("Failed to fetch")]
    /\ UNCHANGED <<vertices, normals, texCoords, faces, materials, textures,
                   currentMaterial, vertexIndex, normalIndex, texCoordIndex,
                   pc, home, counts, cur, pending, outcome, downloads, before,
                   discarded, steps, mappingFile, request, saved>>

\* The exporter is local to the call: exportToOBJ is called on it once.
NextServer ==
    \/ pc = "idle" /\ ExportToOBJ
    \/ GetWalls
    \/ GetRooms
    \/ GetFurniture
    \/ ExportWall
    \/ ExportRoom
    \/ ExportFurniture
    \/ FetchTextureSettles
    \/ ZipReady
    \/ ZipError
    \/ ExportHomeEnds
    \/ CreateZipFile
    \/ ExportRejects
    \/ SendToServer

SpecServer == InitServer /\ [][NextServer]_vars

\* C26: whenever the geometry export succeeds and the HTTP POST to
\* exportForUnity.php succeeds, exportToServerAndDownload sends the OBJ text,
\* the MTL text and the serialized home to the server and returns the
\* server's JSON response: the home is exported both to the server and as a
\* local download.
C26_SentToServerAndDownloaded ==
    (pc = "returned" /\ serverExport.http = "ok" /\ serverExport.at # "exportToOBJ") =>
        /\ Len(downloads) = 1
        /\ serverExport.at = "returned"
        /\ serverExport.outcome = [kind |-> "json"]
        /\ Len(serverExport.request) = 1
        /\ serverExport.request[1].obj_data = [vertices |-> vertices, faces |-> faces]
        /\ serverExport.request[1].mtl_data = DOMAIN materials

\* ------------------------------------------------------ faces and materials
\* C27: at every point of an export the material name stored in every face
\* is non-null and is a key of the materials map, so every usemtl directive
\* buildOBJContent writes has a newmtl record written by buildMTLContent.
C27_FaceMaterialsDefined ==
    \A k \in 1..Len(faces) :
        /\ faces[k].material # NullName
        /\ has(materials, faces[k].material)

\* A mesh whose faces carry a material of its library has been imported after
\* generated geometry, whose faces carry materials setMaterial created.
C27_LibraryAndDefaultMaterials ==
    /\ integrated
    /\ Len(before.faces) > 0
    /\ \E k \in 1..Len(meshFaces) :
          meshFaces[k].material # furnitureMaterialName(furnitureName(cur.i))
    /\ \E k \in 1..Len(before.faces) :
          before.faces[k].material \in {"default_wall", "default_floor"}

\* ---------------------------------------------------- materials and textures
\* The materials of the records a download's materials.mtl holds that name a
\* texture: their map_Kd values.
mapKdOf(archive) ==
    {materials[m].texture : m \in {n \in archive.mtl : materials[n].texture # NullName}}

\* C28: at every point of an export every material record whose texture
\* field is non-null names a key of the texture map, so every map_Kd line of
\* materials.mtl refers to an image file createZipFile puts into the archive.
C28_MaterialTexturesStored ==
    /\ {materials[m].texture : m \in DOMAIN materials} \ {NullName} \subseteq DOMAIN textures
    /\ \A k \in 1..Len(downloads) : mapKdOf(downloads[k]) \subseteq downloads[k].entries

\* An archive has been downloaded whose materials.mtl names the texture of a
\* wall or room and the texture of a furniture library.
C28_TexturedSurfaceAndLibrary ==
    /\ pc = "returned" /\ Len(downloads) = 1
    /\ integrated
    /\ \E k \in 1..Len(meshFaces) : materials[meshFaces[k].material].texture # NullName
    /\ \E m \in DOMAIN before.materials : before.materials[m].texture # NullName
    /\ mapKdOf(downloads[1]) # {}

\* ------------------------------------------------------------- termination
\* The steps fairness is asked of, each by its guard: exportHome going on
\* while no request is awaited (a list is read, the next handler is called,
\* the loops end, the files are built), a texture fetch settling, and an
\* archive request calling zipReady or zipError.  In a state of the guard the
\* specification allows these steps only, and each of them counts as a step
\* of the call.
ExportGoesOn ==
    /\ pc \in {"exportHome", "createZipFile"} /\ pending = "none"
    /\ steps' = steps + 1
FetchSettles ==
    /\ pending = "texture"
    /\ steps' = steps + 1
ArchiveAnswers ==
    /\ pending = "zip"
    /\ steps' = steps + 1

\* The event loop resumes exportHome whenever it can go on; every texture
\* fetch settles and every archive request calls zipReady or zipError.  Who
\* calls exportToOBJ, and when, is not constrained.
FairSpec ==
    /\ Spec
    /\ WF_steps(ExportGoesOn)
    /\ WF_steps(FetchSettles)
    /\ WF_steps(ArchiveAnswers)

\* The textured surfaces of a wall or room: the sides that have an image.
texturedSurfaces(kind, el) ==
    IF el.isNull THEN 0
    ELSE IF kind = "walls"
    THEN (IF hasURL(el.leftSideTexture) THEN 1 ELSE 0) +
         (IF hasURL(el.rightSideTexture) THEN 1 ELSE 0)
    ELSE (IF hasURL(el.floorTexture) THEN 1 ELSE 0) +
         (IF hasURL(el.ceilingTexture) THEN 1 ELSE 0)

\* The element in hand has made no more requests than it has textured
\* surfaces, or than one for a furniture piece.
requestsBounded ==
    cur.kind # "none" =>
        cur.requests <= IF cur.kind = "furniture" THEN 1
                        ELSE texturedSurfaces(cur.kind, cur.el)

\* A step of a running export never takes a list counter back.
neverRevisits ==
    (pc = "exportHome" /\ pc' = "exportHome") =>
        /\ counts'.walls >= counts.walls
        /\ counts'.rooms >= counts.rooms
        /\ counts'.furniture >= counts.furniture

\* Every export that has started ends: it returns or throws.
exportEnds == (pc \in {"exportHome", "createZipFile"}) ~> (pc \in {"returned", "thrown"})

\* C29: every exportToOBJ call eventually terminates, by returning a result
\* or by throwing, provided every texture fetch settles and every archive
\* request calls zipReady or zipError; no element is retried or revisited, so
\* the fetches are no more than the textured surfaces and furniture pieces.
C29_TerminatesWithBoundedFetches ==
    /\ exportEnds
    /\ [][neverRevisits]_vars
    /\ []requestsBounded

\* ---------------------------------------------------------------------
\* saveEntityMapping.php
\* ---------------------------------------------------------------------

\* $_POST['furniture'] decoded: nothing (the field is missing or '{}'), or
\* a piece, with coordinates in thousandths of a centimetre.  The two lamps
\* differ by less than the two decimals kept by generateFurnitureId.
FurnitureData ==
    {[posted |-> FALSE, catalogId |-> "", x |-> 0, y |-> 0, elevation |-> 0],
     [posted |-> TRUE, catalogId |-> "lamp", x |-> 1000, y |-> 2000, elevation |-> 0],
     [posted |-> TRUE, catalogId |-> "lamp", x |-> 1004, y |-> 2000, elevation |-> 0],
     [posted |-> TRUE, catalogId |-> "sofa", x |-> 1000, y |-> 2000, elevation |-> 0]}

\* $_POST['entity_id']: missing, '0', or an entity of Home Assistant.
EntityIds == {"", "0", "light.lamp", "switch.fan"}

\* empty() of PHP on a string: '' and '0' are empty.
empty(value) == value \in {"", "0"}

\* generateFurnitureId: md5 of sprintf('%s_%.2f_%.2f_%.2f'), which keeps
\* hundredths, rounded to the nearest; the text hashed stands for its md5.
generateFurnitureId(piece) ==
    LET twoDecimals(thousandths) == (thousandths + 5) \div 10
    IN  <<piece.catalogId, twoDecimals(piece.x), twoDecimals(piece.y),
          twoDecimals(piece.elevation)>>

\* loadMappings: the decoded file; no mappings when the file is missing or
\* json_decode gives null (an empty file).
loadMappings(file) ==
    IF file.content = "json" THEN file.mappings ELSE <<>>

\* The exporter's variables, which the script never touches.
exporterVars ==
    <<vertices, normals, texCoords, faces, materials, textures,
      currentMaterial, vertexIndex, normalIndex, texCoordIndex, pc, home,
      counts, cur, pending, outcome, downloads, before, discarded,
      serverExport, steps>>

\* 'save', up to the call of saveMappings: 400 without furniture data or
\* with an empty entity_id; else the file is read and the mapping of the
\* piece is put into the script's copy.
Save(r) ==
    /\ request[r].pc = "idle"
    /\ \E furniture \in FurnitureData, entityId \in EntityIds :
        IF ~furniture.posted \/ empty(entityId)
        THEN request' = [request EXCEPT ![r] =
                 [Idle EXCEPT !.action = "save", !.response = "400"]]
        ELSE LET mappings == loadMappings(mappingFile)
                 furnitureId == generateFurnitureId(furniture)
             IN  request' = [request EXCEPT ![r] =
                     [action |-> "save", pc |-> "loaded",
                      furnitureId |-> furnitureId,
                      mappings |-> [id \in DOMAIN mappings \cup {furnitureId} |->
                                       IF id = furnitureId THEN entityId
                                       ELSE mappings[id]],
                      response |-> "none"]]
    /\ UNCHANGED <<mappingFile, saved>>
    /\ UNCHANGED exporterVars

\* 'load': the file is read and sent.
Load(r) ==
    /\ request[r].pc = "idle"
    /\ request' = [request EXCEPT ![r] =
           [Idle EXCEPT !.action = "load",
                        !.mappings = loadMappings(mappingFile),
                        !.response = "mappings"]]
    /\ UNCHANGED <<mappingFile, saved>>
    /\ UNCHANGED exporterVars

\* 'delete', up to the call of saveMappings: 400 without furniture_id,
\* 'Mapping not found' for an id the file read does not hold; else the id
\* is unset in the script's copy.
Delete(r) ==
    /\ request[r].pc = "idle"
    /\ \E furniture \in FurnitureData :
        LET mappings == loadMappings(mappingFile)
            furnitureId == IF furniture.posted
                           THEN generateFurnitureId(furniture) ELSE <<>>
        IN  IF ~furniture.posted
            THEN request' = [request EXCEPT ![r] =
                     [Idle EXCEPT !.action = "delete", !.response = "400"]]
            ELSE IF furnitureId \notin DOMAIN mappings
            THEN request' = [request EXCEPT ![r] =
                     [Idle EXCEPT !.action = "delete",
                                  !.furnitureId = furnitureId,
                                  !.response = "Mapping not found"]]
            ELSE request' = [request EXCEPT ![r] =
                     [action |-> "delete", pc |-> "loaded",
                      furnitureId |-> furnitureId,
                      mappings |-> [id \in DOMAIN mappings \ {furnitureId} |->
                                       mappings[id]],
                      response |-> "none"]]
    /\ UNCHANGED <<mappingFile, saved>>
    /\ UNCHANGED exporterVars

\* 'clear', up to the call of saveMappings: nothing is read.
Clear(r) ==
    /\ request[r].pc = "idle"
    /\ request' = [request EXCEPT ![r] =
           [Idle EXCEPT !.action = "clear", !.pc = "loaded"]]
    /\ UNCHANGED <<mappingFile, saved>>
    /\ UNCHANGED exporterVars

\* Any other action: 400.
InvalidAction(r) ==
    /\ request[r].pc = "idle"
    /\ request' = [request EXCEPT ![r] =
           [Idle EXCEPT !.action = "other", !.response = "400"]]
    /\ UNCHANGED <<mappingFile, saved>>
    /\ UNCHANGED exporterVars

\* saveMappings, first half: file_put_contents opens the file for writing,
\* which empties it.  No lock is taken.
saveMappings_open(r) ==
    /\ request[r].pc = "loaded"
    /\ mappingFile' = [content |-> "empty", mappings |-> <<>>]
    /\ request' = [request EXCEPT ![r].pc = "opened"]
    /\ UNCHANGED saved
    /\ UNCHANGED exporterVars

\* saveMappings, second half: the JSON of the script's copy is written,
\* success is answered and the script ends.
saveMappings_write(r) ==
    /\ request[r].pc = "opened"
    /\ mappingFile' = [content |-> "json", mappings |-> request[r].mappings]
    /\ request' = [request EXCEPT ![r] =
           [Idle EXCEPT !.action = request[r].action,
                        !.furnitureId = request[r].furnitureId,
                        !.response = "success"]]
    /\ saved' = IF request[r].action = "save"
                THEN saved \cup {request[r].furnitureId}
                ELSE IF request[r].action = "delete"
                THEN saved \ {request[r].furnitureId}
                ELSE {}
    /\ UNCHANGED exporterVars

NextMapping ==
    \E r \in 1..MaxRequests :
        \/ Save(r)
        \/ Load(r)
        \/ Delete(r)
        \/ Clear(r)
        \/ InvalidAction(r)
        \/ saveMappings_open(r)
        \/ saveMappings_write(r)

\* The requests the web server handles, in any interleaving of their file
\* operations.
SpecMapping == Init /\ [][NextMapping]_vars

\* No request is being handled.
quiescent == \A r \in 1..MaxRequests : request[r].pc = "idle"

\* C30: once a save of a furniture piece has been answered with success,
\* its mapping stays in the mapping file until a delete of its id or a
\* clear; when two saves of different pieces are handled concurrently, both
\* mappings are in the file after both have been answered.
C30_SavedMappingsStay ==
    quiescent => \A id \in saved : id \in DOMAIN loadMappings(mappingFile)

====
